---- MODULE Spec2Model ----
(***************************************************************************)
(* Stack detection and rule resolution of ai-instructions.                 *)
(*                                                                         *)
(* Spec        DetectStack (internal/detect/detect.go): the root pass of   *)
(*             the three marker readers followed by filepath.WalkDir.      *)
(* SpecReaders one marker reader applied to one directory, over every      *)
(*             content of its file and every stack record.                 *)
(* SpecResolve addRulesFor on one technology/version and one rule store.   *)
(*                                                                         *)
(* The project tree is the input of DetectStack.  WalkDir lists every      *)
(* directory once, in byte order of the entry names, and the walk reads    *)
(* every marker file below the root once, so an entry of a subdirectory is *)
(* drawn when the walk reaches it.  The root's own marker files are read   *)
(* twice (root pass, then the walk's dispatch), so they are kept in        *)
(* rootFiles from the start.                                               *)
(***************************************************************************)
EXTENDS Integers, Sequences, FiniteSets, TLC

VARIABLES
    rootState,   \* what the file system answers for projectRoot itself
    rootFiles,   \* the marker files directly in projectRoot
    focus,       \* the technology the project's manifests declare
    stack,       \* stack *DetectedStack
    pc,          \* position in DetectStack
    result,      \* what DetectStack returned (pc = "done")
    dirs,        \* directory WalkDir is listing, relative to projectRoot
    last,        \* per open directory: rank of the entry visited last
    cb,          \* the call of the WalkDir callback the last step made
    offered,     \* history: version the file dispatched last declares for focus
    first,       \* history: first declaration for focus the walk met, and where
    rd,          \* SpecReaders: the reader call under test
    rs,          \* SpecResolve: the resolution under test
    gen          \* SpecGenerate: the run of the generate command

vars == <<rootState, rootFiles, focus, stack, pc, result, dirs, last, cb,
          offered, first, rd, rs, gen>>

detectVars == <<rootState, rootFiles, focus, stack, pc, result, dirs, last, cb,
                offered, first>>

(***************************************************************************)
(* Bounds of the model                                                     *)
(***************************************************************************)
\* directories nested below projectRoot that the walk descends
MaxDepth == 2

(***************************************************************************)
(* Values                                                                  *)
(***************************************************************************)
\* a key that the JSON object does not hold (map lookup gives ok = false)
None == "<no key>"
Versions == {"8.2", "8.3"}
\* what a JSON document can give for one key: no key, "", or a constraint
Opt == {None, ""} \cup Versions

\* the fields of DetectedStack
Techs == {"PHP", "Laravel", "Nuxt", "Vue", "NuxtUI"}
DetectedStack == [Techs -> {""} \cup Versions]
\* stack := &DetectedStack{}
EmptyStack == [t \in Techs |-> ""]

\* error values
Nil == [type |-> "nil"]
NoPath == <<"<no path>">>
\* *fs.PathError of os.ReadFile: carries the path of the file
PathError(path) == [type |-> "PathError", Path |-> path]
\* *json.SyntaxError / *json.UnmarshalTypeError: message and offset, no path
SyntaxError == [type |-> "SyntaxError", Path |-> NoPath]

\* a file on disk
Absent == [kind |-> "absent"]
Unreadable == [kind |-> "unreadable"]
Malformed == [kind |-> "malformed"]

\* composerJSON: config.platform["php"], require["php"], require["laravel/framework"]
ComposerJson(pp, rp, rl) ==
    [kind |-> "json", platformPhp |-> pp, requirePhp |-> rp, requireLaravel |-> rl]

JsNames == {"nuxt", "vue", "@nuxt/ui"}
\* packageJSON: dependencies and devDependencies
PackageJson(deps, dev) ==
    [kind |-> "json", dependencies |-> deps, devDependencies |-> dev]

\* lockFile: dependencies["@nuxt/ui"].version, packages["node_modules/@nuxt/ui"].version
LockJson(d, p) == [kind |-> "json", depVersion |-> d, pkgVersion |-> p]

\* composer.lock: the locked version of laravel/framework
ComposerLock(l) == [kind |-> "json", laravel |-> l]

(***************************************************************************)
(* Marker readers.  Each takes the directory, the state of its file in     *)
(* that directory and the record, and gives the record after the call and  *)
(* the error returned.  A reader returns before its first write whenever   *)
(* it returns an error, so the record of an error result is the old one.   *)
(***************************************************************************)
\* os.ReadFile + json.Unmarshal: the error of the read, nil when it parsed
ReadJson(path, file) ==
    IF file.kind = "unreadable" THEN PathError(path)
    ELSE IF file.kind = "malformed" THEN SyntaxError
    ELSE Nil

\* faulty variant: require's php written without the stack.PHP == "" test
detectFromComposer_Overwrite(dir, file, s) ==
    LET path == dir \o <<"composer.json">>
        s1 == IF s["PHP"] = "" /\ file.platformPhp # None
              THEN [s EXCEPT !["PHP"] = file.platformPhp] ELSE s
        s2 == IF file.requirePhp # None
              THEN [s1 EXCEPT !["PHP"] = file.requirePhp] ELSE s1
        s3 == IF s2["Laravel"] = "" /\ file.requireLaravel # None
              THEN [s2 EXCEPT !["Laravel"] = file.requireLaravel] ELSE s2
    IN  IF file.kind = "absent" THEN [stack |-> s, err |-> Nil]
        ELSE IF file.kind # "json" THEN [stack |-> s, err |-> ReadJson(path, file)]
        ELSE [stack |-> s3, err |-> Nil]

\* faulty variant: require read before config.platform
detectFromComposer_RequireFirst(dir, file, s) ==
    LET path == dir \o <<"composer.json">>
        s1 == IF s["PHP"] = "" /\ file.requirePhp # None
              THEN [s EXCEPT !["PHP"] = file.requirePhp] ELSE s
        s2 == IF s1["PHP"] = "" /\ file.platformPhp # None
              THEN [s1 EXCEPT !["PHP"] = file.platformPhp] ELSE s1
        s3 == IF s2["Laravel"] = "" /\ file.requireLaravel # None
              THEN [s2 EXCEPT !["Laravel"] = file.requireLaravel] ELSE s2
    IN  IF file.kind = "absent" THEN [stack |-> s, err |-> Nil]
        ELSE IF file.kind # "json" THEN [stack |-> s, err |-> ReadJson(path, file)]
        ELSE [stack |-> s3, err |-> Nil]

detectFromComposer(dir, file, s) ==
    LET path == dir \o <<"composer.json">>
        s1 == IF s["PHP"] = "" /\ file.platformPhp # None
              THEN [s EXCEPT !["PHP"] = file.platformPhp] ELSE s
        s2 == IF s1["PHP"] = "" /\ file.requirePhp # None
              THEN [s1 EXCEPT !["PHP"] = file.requirePhp] ELSE s1
        s3 == IF s2["Laravel"] = "" /\ file.requireLaravel # None
              THEN [s2 EXCEPT !["Laravel"] = file.requireLaravel] ELSE s2
    IN  IF file.kind = "absent" THEN [stack |-> s, err |-> Nil]
        ELSE IF file.kind # "json" THEN [stack |-> s, err |-> ReadJson(path, file)]
        ELSE [stack |-> s3, err |-> Nil]

\* get := func(name string) (string, bool): None stands for ok = false
get(p, name) ==
    IF p.dependencies[name] # None THEN p.dependencies[name]
    ELSE IF p.devDependencies[name] # None THEN p.devDependencies[name]
    ELSE None

\* faulty variant: the fields written without the == "" tests
detectFromPackageJson_Overwrite(dir, file, s) ==
    LET path == dir \o <<"package.json">>
        s1 == IF get(file, "nuxt") # None
              THEN [s EXCEPT !["Nuxt"] = get(file, "nuxt")] ELSE s
        s2 == IF get(file, "vue") # None
              THEN [s1 EXCEPT !["Vue"] = get(file, "vue")] ELSE s1
        s3 == IF get(file, "@nuxt/ui") # None
              THEN [s2 EXCEPT !["NuxtUI"] = get(file, "@nuxt/ui")] ELSE s2
    IN  IF file.kind = "absent" THEN [stack |-> s, err |-> Nil]
        ELSE IF file.kind # "json" THEN [stack |-> s, err |-> ReadJson(path, file)]
        ELSE [stack |-> s3, err |-> Nil]

detectFromPackageJson(dir, file, s) ==
    LET path == dir \o <<"package.json">>
        s1 == IF get(file, "nuxt") # None /\ s["Nuxt"] = ""
              THEN [s EXCEPT !["Nuxt"] = get(file, "nuxt")] ELSE s
        s2 == IF get(file, "vue") # None /\ s1["Vue"] = ""
              THEN [s1 EXCEPT !["Vue"] = get(file, "vue")] ELSE s1
        s3 == IF get(file, "@nuxt/ui") # None /\ s2["NuxtUI"] = ""
              THEN [s2 EXCEPT !["NuxtUI"] = get(file, "@nuxt/ui")] ELSE s2
    IN  IF file.kind = "absent" THEN [stack |-> s, err |-> Nil]
        ELSE IF file.kind # "json" THEN [stack |-> s, err |-> ReadJson(path, file)]
        ELSE [stack |-> s3, err |-> Nil]

\* faulty variant: the pinned version written without the stack.NuxtUI == "" test
detectFromPackageLockJson_Overwrite(dir, file, s) ==
    LET path == dir \o <<"package-lock.json">>
        s1 == IF file.depVersion \notin {None, ""}
              THEN [s EXCEPT !["NuxtUI"] = file.depVersion]
              ELSE IF file.pkgVersion \notin {None, ""}
              THEN [s EXCEPT !["NuxtUI"] = file.pkgVersion]
              ELSE s
    IN  IF file.kind = "absent" THEN [stack |-> s, err |-> Nil]
        ELSE IF file.kind # "json" THEN [stack |-> s, err |-> ReadJson(path, file)]
        ELSE [stack |-> s1, err |-> Nil]

\* a dependency entry without a version decodes to Version == "": as no entry
detectFromPackageLockJson(dir, file, s) ==
    LET path == dir \o <<"package-lock.json">>
        s1 == IF s["NuxtUI"] # "" THEN s
              ELSE IF file.depVersion \notin {None, ""}
              THEN [s EXCEPT !["NuxtUI"] = file.depVersion]
              ELSE IF file.pkgVersion \notin {None, ""}
              THEN [s EXCEPT !["NuxtUI"] = file.pkgVersion]
              ELSE s
    IN  IF file.kind = "absent" THEN [stack |-> s, err |-> Nil]
        ELSE IF file.kind # "json" THEN [stack |-> s, err |-> ReadJson(path, file)]
        ELSE [stack |-> s1, err |-> Nil]

\* not among the sources: a lock-file reader as section 4.1 of the
\* specification describes it, supplementing Laravel when it is still unset
detectFromComposerLock(dir, file, s) ==
    LET path == dir \o <<"composer.lock">>
        s1 == IF s["Laravel"] = "" /\ file.laravel \notin {None, ""}
              THEN [s EXCEPT !["Laravel"] = file.laravel] ELSE s
    IN  IF file.kind = "absent" THEN [stack |-> s, err |-> Nil]
        ELSE IF file.kind # "json" THEN [stack |-> s, err |-> ReadJson(path, file)]
        ELSE [stack |-> s1, err |-> Nil]

MarkerNames == {"composer.json", "composer.lock", "package-lock.json", "package.json"}

\* the switch on d.Name() of the WalkDir callback
Dispatch(name, dir, file, s) ==
    CASE name = "composer.json" -> detectFromComposer(dir, file, s)
      [] name = "composer.lock" -> detectFromComposerLock(dir, file, s)
      [] name = "package.json" -> detectFromPackageJson(dir, file, s)
      [] name = "package-lock.json" -> detectFromPackageLockJson(dir, file, s)
      [] OTHER -> [stack |-> s, err |-> Nil]

(***************************************************************************)
(* Entry names.  os.ReadDir, which WalkDir lists a directory with, returns *)
(* the entries sorted by file name (byte order).                           *)
(***************************************************************************)
DirNames == {".git", "api", "composer", "node_modules", "vendor", "web"}
FileNames == MarkerNames \cup {"notes.md"}
Names == DirNames \cup FileNames

\* the characters of the names, in increasing byte value
ByteOrder ==
    <<"-", ".", "_", "a", "b", "c", "d", "e", "f", "g", "h", "i", "j", "k", "l",
      "m", "n", "o", "p", "q", "r", "s", "t", "u", "v", "w", "x", "y", "z">>
Byte(c) == CHOOSE i \in 1..Len(ByteOrder) : ByteOrder[i] = c

\* a name as its characters
Spelling(n) ==
    CASE n = ".git" -> <<".", "g", "i", "t">>
      [] n = "api" -> <<"a", "p", "i">>
      [] n = "composer" -> <<"c", "o", "m", "p", "o", "s", "e", "r">>
      [] n = "composer.json" -> <<"c", "o", "m", "p", "o", "s", "e", "r", ".", "j", "s", "o", "n">>
      [] n = "composer.lock" -> <<"c", "o", "m", "p", "o", "s", "e", "r", ".", "l", "o", "c", "k">>
      [] n = "node_modules" -> <<"n", "o", "d", "e", "_", "m", "o", "d", "u", "l", "e", "s">>
      [] n = "notes.md" -> <<"n", "o", "t", "e", "s", ".", "m", "d">>
      [] n = "package-lock.json" -> <<"p", "a", "c", "k", "a", "g", "e", "-", "l", "o", "c", "k", ".", "j", "s", "o", "n">>
      [] n = "package.json" -> <<"p", "a", "c", "k", "a", "g", "e", ".", "j", "s", "o", "n">>
      [] n = "vendor" -> <<"v", "e", "n", "d", "o", "r">>
      [] n = "web" -> <<"w", "e", "b">>

\* strings.HasPrefix(name, prefix) for a one-character prefix
HasPrefix(name, prefix) ==
    Len(Spelling(name)) >= 1 /\ Spelling(name)[1] = prefix

\* a < b as Go compares strings
StringLess(a, b) ==
    LET x == Spelling(a)
        y == Spelling(b)
        Diff == {i \in 1..Len(x) : i > Len(y) \/ x[i] # y[i]}
        d == CHOOSE i \in Diff : \A j \in Diff : i <= j
    IN  IF Diff = {} THEN Len(x) < Len(y)
        ELSE d <= Len(y) /\ Byte(x[d]) < Byte(y[d])

\* position of a name in a sorted listing of all names (1 = first)
Rank == [n \in Names |-> 1 + Cardinality({m \in Names : StringLess(m, n)})]

(***************************************************************************)
(* The project trees of the model.  Every manifest declares the technology *)
(* focus and nothing else.  A marker file takes every value of the key    *)
(* read first and a value of RootSecond for the key read second; every     *)
(* combination of the two keys is met in SpecReaders.                      *)
(***************************************************************************)
NoDeps == [n \in JsNames |-> None]
JsKey(t) == CASE t = "Nuxt" -> "nuxt" [] t = "Vue" -> "vue" [] t = "NuxtUI" -> "@nuxt/ui"
RootSecond == {None, "8.3"}

\* the marker files that can declare technology t
Declaring(t) ==
    CASE t = "PHP" -> {"composer.json"}
      [] t = "Laravel" -> {"composer.json", "composer.lock"}
      [] t = "NuxtUI" -> {"package.json", "package-lock.json"}
      [] OTHER -> {"package.json"}

ComposerJsons(t, second) ==
    IF t = "PHP" THEN {ComposerJson(x[1], x[2], None) : x \in Opt \X second}
    ELSE IF t = "Laravel" THEN {ComposerJson(None, None, l) : l \in Opt}
    ELSE {ComposerJson(None, None, None)}

PackageJsons(t, second) ==
    IF t \in {"Nuxt", "Vue", "NuxtUI"}
    THEN {PackageJson([NoDeps EXCEPT ![JsKey(t)] = x[1]],
                      [NoDeps EXCEPT ![JsKey(t)] = x[2]]) : x \in Opt \X second}
    ELSE {PackageJson(NoDeps, NoDeps)}

LockJsons(t, second) ==
    IF t = "NuxtUI" THEN {LockJson(x[1], x[2]) : x \in Opt \X second}
    ELSE {LockJson(None, None)}

ComposerLocks(t) ==
    IF t = "Laravel" THEN {ComposerLock(l) : l \in Opt}
    ELSE {ComposerLock(None)}

Contents(name, t, second) ==
    CASE name = "composer.json" -> ComposerJsons(t, second)
      [] name = "composer.lock" -> ComposerLocks(t)
      [] name = "package.json" -> PackageJsons(t, second)
      [] name = "package-lock.json" -> LockJsons(t, second)
      [] OTHER -> {Absent}

\* a file that the listing of a subdirectory shows
ListedFiles(name, t) ==
    IF name \in MarkerNames THEN {Unreadable, Malformed} \cup Contents(name, t, RootSecond)
    ELSE {Absent}

\* a marker file of projectRoot (unreadable ones: rootState "noperm")
RootFile(name, t) ==
    {Absent, Malformed} \cup
        (IF name \in Declaring(t) THEN Contents(name, t, RootSecond) ELSE {})

RootStates == {"ok", "notexist", "noperm", "nolist"}

\* notexist: no such directory.  noperm: no search permission, nothing below
\* the root can be opened.  nolist: files open, the directory cannot be listed
RootFamily(st, t) ==
    IF st = "notexist" THEN {[n \in MarkerNames |-> Absent]}
    ELSE IF st = "noperm" THEN {[n \in MarkerNames |-> Unreadable]}
    ELSE {[n \in MarkerNames |->
             CASE n = "composer.json" -> a
               [] n = "composer.lock" -> b
               [] n = "package.json" -> c
               [] n = "package-lock.json" -> d] :
            a \in RootFile("composer.json", t), b \in RootFile("composer.lock", t),
            c \in RootFile("package.json", t), d \in RootFile("package-lock.json", t)}

(***************************************************************************)
(* DetectStack                                                             *)
(***************************************************************************)
projectRoot == <<>>

\* faulty variant: vendor missing from the map
ignoredDirs_NoVendor == {"node_modules", "composer"}

ignoredDirs == {"node_modules", "composer", "vendor"}

\* faulty variant: the error of the listing returned instead of skipped
WalkFunc_ReturnErr(path, name, isDir, err) ==
    IF err THEN [ret |-> "err", read |-> ""]
    ELSE IF path = <<>> THEN [ret |-> "nil", read |-> ""]
    ELSE IF isDir
    THEN IF HasPrefix(name, ".") \/ name \in {"node_modules", "composer", "vendor"}
         THEN [ret |-> "SkipDir", read |-> ""]
         ELSE [ret |-> "nil", read |-> ""]
    ELSE [ret |-> "nil", read |-> IF name \in MarkerNames THEN name ELSE ""]

\* the function literal passed to filepath.WalkDir: what it returns
\* ("nil", "SkipDir") and the case of its switch it takes ("" for none)
WalkFunc(path, name, isDir, err) ==
    IF err THEN [ret |-> "nil", read |-> ""]
    ELSE IF path = projectRoot THEN [ret |-> "nil", read |-> ""]
    ELSE IF isDir
    THEN IF HasPrefix(name, ".") THEN [ret |-> "SkipDir", read |-> ""]
         ELSE IF name \in ignoredDirs THEN [ret |-> "SkipDir", read |-> ""]
         ELSE [ret |-> "nil", read |-> ""]
    ELSE [ret |-> "nil", read |-> IF name \in MarkerNames THEN name ELSE ""]

\* a *DetectedStack: <<>> is nil
Returned(s, e) == [stack |-> s, err |-> e]
NoCall == [err |-> FALSE, ret |-> "nil", read |-> Nil]
NoFirst == [v |-> "", dir |-> <<>>]

\* what a file declares for technology t when nothing is set yet
Offer(name, file, t) ==
    IF name \in MarkerNames /\ file.kind = "json"
    THEN Dispatch(name, projectRoot, file, EmptyStack).stack[t]
    ELSE ""

Init ==
    /\ focus \in Techs
    /\ rootState \in RootStates
    /\ rootFiles \in RootFamily(rootState, focus)
    /\ stack = EmptyStack
    /\ pc = "composer"
    /\ result = Returned(<<>>, Nil)
    /\ dirs = <<>>
    /\ last = <<>>
    /\ cb = NoCall
    /\ offered = ""
    /\ first = NoFirst
    /\ rd = <<>>
    /\ rs = <<>>
    /\ gen = <<>>

\* one reader of the root pass: return nil, err on an error
RootPass(r, next) ==
    /\ IF r.err # Nil
       THEN /\ pc' = "done"
            /\ result' = Returned(<<>>, r.err)
            /\ UNCHANGED stack
       ELSE /\ pc' = next
            /\ stack' = r.stack
            /\ UNCHANGED result
    /\ UNCHANGED <<rootState, rootFiles, focus, dirs, last, cb, offered, first, rd, rs, gen>>

RootComposer ==
    /\ pc = "composer"
    /\ RootPass(detectFromComposer(projectRoot, rootFiles["composer.json"], stack),
                "packageJson")

RootPackageJson ==
    /\ pc = "packageJson"
    /\ RootPass(detectFromPackageJson(projectRoot, rootFiles["package.json"], stack),
                "packageLock")

RootPackageLockJson ==
    /\ pc = "packageLock"
    /\ RootPass(detectFromPackageLockJson(projectRoot, rootFiles["package-lock.json"], stack),
                "walkdir")

\* WalkDir returned e: the end of DetectStack
Return(e) ==
    /\ pc' = "done"
    /\ result' = IF e = Nil THEN Returned(<<stack>>, Nil) ELSE Returned(<<>>, e)

\* filepath.WalkDir on the root: Lstat, the callback on the root itself, ReadDir
WalkDirRoot ==
    /\ pc = "walkdir"
    /\ LET failed == rootState \in {"notexist", "nolist"}
           w1 == WalkFunc(projectRoot, "", TRUE, rootState = "notexist")
           w2 == WalkFunc(projectRoot, "", TRUE, TRUE)
       IN  /\ cb' = [err |-> failed, ret |-> IF rootState = "nolist" THEN w2.ret ELSE w1.ret,
                     read |-> Nil]
           /\ IF failed
              THEN /\ Return(IF cb'.ret = "err" THEN PathError(projectRoot) ELSE Nil)
                   /\ UNCHANGED <<dirs, last>>
              ELSE /\ pc' = "walk"
                   /\ dirs' = projectRoot
                   /\ last' = <<0>>
                   /\ UNCHANGED result
    /\ UNCHANGED <<rootState, rootFiles, focus, stack, offered, first, rd, rs, gen>>

\* the marker files of projectRoot that its listing still has to show
RootPending(from) ==
    {m \in MarkerNames : rootFiles[m] # Absent /\ Rank[m] > from}

\* n can be the next entry of the directory being listed
NextEntry(n) ==
    /\ pc = "walk"
    /\ Rank[n] > last[Len(last)]
    /\ dirs = projectRoot =>
         /\ \A m \in RootPending(last[Len(last)]) : Rank[n] <= Rank[m]
         /\ n \in MarkerNames => rootFiles[n] # Absent

Advance(n) == [last EXCEPT ![Len(last)] = Rank[n]]

\* a directory the callback answers SkipDir for
VisitSkippedDir(n) ==
    /\ NextEntry(n)
    /\ WalkFunc(dirs \o <<n>>, n, TRUE, FALSE).ret = "SkipDir"
    /\ last' = Advance(n)
    /\ cb' = [err |-> FALSE, ret |-> "SkipDir", read |-> Nil]
    /\ offered' = ""
    /\ UNCHANGED <<rootState, rootFiles, focus, stack, pc, result, dirs, first, rd, rs, gen>>

\* a directory the walk descends into
EnterDir(n) ==
    /\ NextEntry(n)
    /\ Len(dirs) < MaxDepth
    /\ WalkFunc(dirs \o <<n>>, n, TRUE, FALSE).ret = "nil"
    /\ dirs' = dirs \o <<n>>
    /\ last' = Advance(n) \o <<0>>
    /\ cb' = [err |-> FALSE, ret |-> "nil", read |-> Nil]
    /\ offered' = ""
    /\ UNCHANGED <<rootState, rootFiles, focus, stack, pc, result, first, rd, rs, gen>>

\* a directory that ReadDir cannot list: the callback is called a second
\* time with the error, and what it returns ends the walk or goes on
VisitUnreadableDir(n) ==
    /\ NextEntry(n)
    /\ WalkFunc(dirs \o <<n>>, n, TRUE, FALSE).ret = "nil"
    /\ LET w == WalkFunc(dirs \o <<n>>, n, TRUE, TRUE)
       IN  /\ cb' = [err |-> TRUE, ret |-> w.ret, read |-> Nil]
           /\ IF w.ret = "err"
              THEN /\ Return(PathError(dirs \o <<n>>))
                   /\ UNCHANGED last
              ELSE /\ last' = Advance(n)
                   /\ UNCHANGED <<pc, result>>
    /\ offered' = ""
    /\ UNCHANGED <<rootState, rootFiles, focus, stack, dirs, first, rd, rs, gen>>

\* a file: the switch on its name, the error of the reader is dropped
VisitFile(n, file) ==
    /\ NextEntry(n)
    /\ LET w == WalkFunc(dirs \o <<n>>, n, FALSE, FALSE)
           r == IF w.read = "" THEN [stack |-> stack, err |-> Nil]
                ELSE Dispatch(w.read, dirs, file, stack)
           o == IF w.read = "" THEN "" ELSE Offer(n, file, focus)
       IN  /\ stack' = r.stack
           /\ cb' = [err |-> FALSE, ret |-> w.ret, read |-> r.err]
           /\ offered' = o
           /\ first' = IF first.v = "" /\ o # ""
                       THEN [v |-> o, dir |-> dirs] ELSE first
    /\ last' = Advance(n)
    /\ UNCHANGED <<rootState, rootFiles, focus, pc, result, dirs, rd, rs, gen>>

VisitRootFile ==
    \E n \in FileNames :
        /\ dirs = projectRoot
        /\ VisitFile(n, IF n \in MarkerNames THEN rootFiles[n] ELSE Absent)

VisitNestedFile ==
    \E n \in FileNames : \E file \in ListedFiles(n, focus) :
        /\ dirs # projectRoot
        /\ VisitFile(n, file)

\* the listing of a subdirectory is exhausted
LeaveDir ==
    /\ pc = "walk"
    /\ dirs # projectRoot
    /\ dirs' = SubSeq(dirs, 1, Len(dirs) - 1)
    /\ last' = SubSeq(last, 1, Len(last) - 1)
    /\ cb' = NoCall
    /\ offered' = ""
    /\ UNCHANGED <<rootState, rootFiles, focus, stack, pc, result, first, rd, rs, gen>>

\* the listing of projectRoot is exhausted: WalkDir returns nil
Finish ==
    /\ pc = "walk"
    /\ dirs = projectRoot
    /\ RootPending(last[1]) = {}
    /\ Return(Nil)
    /\ cb' = NoCall
    /\ offered' = ""
    /\ UNCHANGED <<rootState, rootFiles, focus, stack, dirs, last, first, rd, rs, gen>>

Next ==
    \/ RootComposer
    \/ RootPackageJson
    \/ RootPackageLockJson
    \/ WalkDirRoot
    \/ \E n \in DirNames : VisitSkippedDir(n)
    \/ \E n \in DirNames : EnterDir(n)
    \/ \E n \in DirNames : VisitUnreadableDir(n)
    \/ VisitRootFile
    \/ VisitNestedFile
    \/ LeaveDir
    \/ Finish

Spec == Init /\ [][Next]_vars

(***************************************************************************)
(* Properties of DetectStack (Spec)                                        *)
(***************************************************************************)
IsSet(v) == v \notin {None, ""}

\* the version the marker files of projectRoot that the root pass reads
\* declare for technology t ("" for none), read off the documents: platform
\* before require, dependencies before devDependencies, manifest before lock
RootDeclared(t) ==
    LET c == rootFiles["composer.json"]
        p == rootFiles["package.json"]
        l == rootFiles["package-lock.json"]
        key(k) == IF p.kind # "json" THEN ""
                  ELSE IF p.dependencies[k] # None
                  THEN (IF IsSet(p.dependencies[k]) THEN p.dependencies[k] ELSE "")
                  ELSE IF IsSet(p.devDependencies[k]) THEN p.devDependencies[k] ELSE ""
        pinned == IF l.kind # "json" THEN ""
                  ELSE IF IsSet(l.depVersion) THEN l.depVersion
                  ELSE IF IsSet(l.pkgVersion) THEN l.pkgVersion ELSE ""
    IN  CASE t = "PHP" ->
               IF c.kind # "json" THEN ""
               ELSE IF IsSet(c.platformPhp) THEN c.platformPhp
               ELSE IF IsSet(c.requirePhp) THEN c.requirePhp ELSE ""
          [] t = "Laravel" ->
               IF c.kind = "json" /\ IsSet(c.requireLaravel) THEN c.requireLaravel ELSE ""
          [] t = "Nuxt" -> key("nuxt")
          [] t = "Vue" -> key("vue")
          [] t = "NuxtUI" -> IF key("@nuxt/ui") # "" THEN key("@nuxt/ui") ELSE pinned

\* the last step dispatched a file of a subdirectory that declares a version
\* for focus other than the one the record holds
Shadowed == pc = "walk" /\ dirs # projectRoot /\ offered \notin {"", stack[focus]}

\* C1: once a field of the record is non-empty no later step of the scan
\* changes it, and the field of the declared technology is always empty or
\* one whole declared version: the root's or the first one the walk met.
C1_WriteOnce ==
    /\ [](stack[focus] \in {"", RootDeclared(focus), first.v})
    /\ [][\A t \in Techs : stack[t] # "" => stack'[t] = stack[t]]_vars

\* two sibling subdirectories declare PHP at different versions
C1_Witness ==
    /\ Shadowed
    /\ focus = "PHP"
    /\ RootDeclared("PHP") = ""
    /\ Len(dirs) = 1 /\ Len(first.dir) = 1 /\ first.dir # dirs
    /\ stack["PHP"] = first.v

\* C2: DetectStack returns the version the root declares for a technology,
\* whatever the subdirectories declare for it.
C2_RootWins ==
    (pc = "done" /\ result.err = Nil) =>
        \A t \in Techs : RootDeclared(t) # "" => result.stack[1][t] = RootDeclared(t)

\* the root declares a version and a manifest of a subdirectory another one
C2_Witness ==
    /\ pc = "done" /\ result.err = Nil
    /\ RootDeclared(focus) # ""
    /\ first.v \notin {"", RootDeclared(focus)} /\ first.dir # projectRoot

\* C3 as claimed: of two subdirectory manifests at different depths that
\* declare different versions, the shallower one's version is retained.
C3_ShallowerWins ==
    (/\ Shadowed
     /\ RootDeclared(focus) = ""
     /\ first.dir # projectRoot /\ Len(first.dir) # Len(dirs)
     /\ offered # first.v)
    => stack[focus] = (IF Len(first.dir) < Len(dirs) THEN first.v ELSE offered)

\* C3 as amended: when the root declares nothing for a technology, the
\* version retained is the one of the marker file the walk reaches first,
\* at whatever depth it lies.
C3_FirstReachedWins ==
    (pc \in {"walk", "done"} /\ RootDeclared(focus) = "" /\ first.v # "")
    => stack[focus] = first.v

\* a manifest at depth 1 loses against one at depth 2 met before it
C3_Witness ==
    /\ Shadowed
    /\ RootDeclared(focus) = ""
    /\ Len(first.dir) = 2 /\ Len(dirs) = 1
    /\ stack[focus] = first.v

\* C4: the walk never lists a directory below a subdirectory whose name
\* starts with "." or is node_modules, composer or vendor, so no reader is
\* ever dispatched on a file below one.
C4_ExcludedNeverRead ==
    \A i \in 1..Len(dirs) :
        /\ Spelling(dirs[i])[1] # "."
        /\ dirs[i] \notin {"node_modules", "composer", "vendor"}

\* a vendor directory below a subdirectory was met and its subtree skipped
C4_Witness ==
    /\ pc = "walk" /\ Len(dirs) >= 1
    /\ cb.ret = "SkipDir"
    /\ last[Len(last)] = Rank["vendor"]

\* C5 as claimed: DetectStack fails whenever projectRoot cannot be listed.
C5_UnlistableRootFails ==
    (pc = "done" /\ rootState # "ok") => (result.err # Nil /\ result.stack = <<>>)

\* C6: a subdirectory that cannot be listed leaves the record and the walk
\* where they were, as if the directory were not there, and a scan that
\* reached the walk returns the record without an error.
C6_UnreadableSubdirSkipped ==
    /\ []((pc = "done" /\ last # <<>>) => (result.err = Nil /\ result.stack = <<stack>>))
    /\ [][(pc = "walk" /\ cb'.err) =>
            (pc' = "walk" /\ stack' = stack /\ dirs' = dirs /\ first' = first)]_vars

\* an unreadable directory below a subdirectory, met after a finding
C6_Witness ==
    /\ pc = "walk" /\ cb.err
    /\ Len(dirs) >= 1
    /\ stack[focus] # ""

\* C9 as claimed: in a directory holding a package.json that declares
\* @nuxt/ui and a package-lock.json that pins it, with NuxtUI unset before,
\* the manifest's version is the one recorded.
C9_ManifestBeatsLock ==
    /\ (/\ pc = "walkdir"
        /\ rootFiles["package.json"].kind = "json"
        /\ IsSet(get(rootFiles["package.json"], "@nuxt/ui")))
         => stack["NuxtUI"] = get(rootFiles["package.json"], "@nuxt/ui")
    /\ (/\ pc = "walk" /\ dirs # projectRoot
        /\ focus = "NuxtUI"
        /\ last[Len(last)] = Rank["package.json"] /\ offered # ""
        /\ RootDeclared("NuxtUI") = ""
        /\ first.dir = dirs)
         => stack["NuxtUI"] = offered

\* the versions the marker files of projectRoot declare for technology t,
\* each file read on its own
RootFindings(t) ==
    {Offer(n, rootFiles[n], t) : n \in MarkerNames} \ {""}

\* the last step dispatched a marker file of a subdirectory
NestedDispatched ==
    /\ pc = "walk" /\ dirs # projectRoot
    /\ last[Len(last)] \in {Rank[m] : m \in MarkerNames}

\* C26 as claimed: when a marker file of a subdirectory is dispatched, every
\* marker file the root holds (composer.lock among them) has been read, and
\* so a technology that a root file declares is returned at a version that
\* a root file declares.
C26_RootReadersFirst ==
    /\ NestedDispatched =>
         \A m \in MarkerNames :
             rootFiles[m] # Absent =>
                 \/ m \in {"composer.json", "package.json", "package-lock.json"}
                 \/ last[1] >= Rank[m]
    /\ (pc = "done" /\ result.err = Nil) =>
         \A t \in Techs :
             RootFindings(t) # {} => result.stack[1][t] \in RootFindings(t)

\* C27 as claimed: a marker file of the root that does not parse makes
\* DetectStack return an error and no record; a marker file of a
\* subdirectory that does not parse leaves the record as it was and the
\* walk goes on.
C27_MalformedPolicy ==
    /\ []((pc = "done" /\ \E m \in MarkerNames : rootFiles[m] = Malformed)
            => (result.err # Nil /\ result.stack = <<>>))
    /\ [][(pc = "walk" /\ dirs # projectRoot /\ cb'.read = SyntaxError)
            => (stack' = stack /\ pc' = "walk" /\ dirs' = dirs
                /\ last'[Len(last')] > last[Len(last)])]_vars

RootManifests == {"composer.json", "package.json", "package-lock.json"}

\* the walk dispatches the root's own file m, which the root pass has read
Redispatch(m) ==
    /\ pc = "walk" /\ dirs = projectRoot
    /\ pc' = "walk" /\ dirs' = projectRoot
    /\ last # <<Rank[m]>> /\ last' = <<Rank[m]>>

\* C29: a marker reader applied a second time to the same directory with
\* the same file leaves every field of the record as the first application
\* left it, and the walk's dispatch of the root's own composer.json,
\* package.json or package-lock.json never changes the record, whatever
\* subdirectory files were read in between.
C29_ReadersIdempotent ==
    /\ [](\A m \in RootManifests :
            LET once == Dispatch(m, projectRoot, rootFiles[m], stack)
            IN  Dispatch(m, projectRoot, rootFiles[m], once.stack).stack = once.stack)
    /\ [][\A m \in RootManifests : Redispatch(m) => stack' = stack]_vars

\* the root's package.json is dispatched again after api/package.json
\* offered another version of the technology the root had already set
C29_Witness ==
    /\ pc = "walk" /\ dirs = projectRoot
    /\ last = <<Rank["package.json"]>>
    /\ first.dir = <<"api">> /\ first.v # ""
    /\ offered # "" /\ offered # first.v
    /\ stack[focus] = offered

(***************************************************************************)
(* SpecReaders: one marker reader called on one directory, then called a   *)
(* second time on the record it left.  The file takes every state and, as  *)
(* a document, every combination of its keys over Opt (devDependencies     *)
(* over None and "8.3"); the record every combination of "" and "8.2".     *)
(***************************************************************************)
ReaderDirs == {projectRoot, <<"api">>}
ReaderStacks == [Techs -> {"", "8.2"}]

ReaderFiles(name) ==
    {Absent, Unreadable, Malformed} \cup
    CASE name = "composer.json" ->
           {ComposerJson(x[1], x[2], x[3]) : x \in Opt \X Opt \X Opt}
      [] name = "composer.lock" -> {ComposerLock(l) : l \in Opt}
      [] name = "package.json" ->
           {PackageJson(x[1], x[2]) : x \in [JsNames -> Opt] \X [JsNames -> {None, "8.3"}]}
      [] name = "package-lock.json" -> {LockJson(x[1], x[2]) : x \in Opt \X Opt}

NoReturn == [stack |-> EmptyStack, err |-> Nil]

\* the detection variables while another specification runs
DetectIdle ==
    /\ rootState = "ok"
    /\ rootFiles = [n \in MarkerNames |-> Absent]
    /\ focus = "PHP"
    /\ stack = EmptyStack
    /\ pc = "idle"
    /\ result = Returned(<<>>, Nil)
    /\ dirs = <<>>
    /\ last = <<>>
    /\ cb = NoCall
    /\ offered = ""
    /\ first = NoFirst

InitReaders ==
    /\ DetectIdle
    /\ rs = <<>>
    /\ gen = <<>>
    /\ \E name \in MarkerNames : \E dir \in ReaderDirs :
       \E file \in ReaderFiles(name) : \E s \in ReaderStacks :
           rd = [name |-> name, dir |-> dir, file |-> file, stack |-> s,
                 ret |-> NoReturn, again |-> NoReturn, n |-> 0]

\* err := detectFromX(dir, stack)
CallReader ==
    /\ rd.n = 0
    /\ rd' = [rd EXCEPT !.ret = Dispatch(rd.name, rd.dir, rd.file, rd.stack), !.n = 1]
    /\ UNCHANGED <<detectVars, rs, gen>>

\* the same call once more, on the record as the first call left it
CallReaderAgain ==
    /\ rd.n = 1
    /\ rd' = [rd EXCEPT !.again = Dispatch(rd.name, rd.dir, rd.file, rd.ret.stack),
                        !.n = 2]
    /\ UNCHANGED <<detectVars, rs, gen>>

NextReaders == CallReader \/ CallReaderAgain

SpecReaders == InitReaders /\ [][NextReaders]_vars

\* C7 as claimed: a marker file that exists but does not parse makes the
\* reader return an error carrying the path of that file; an absent file
\* gives no finding and no error.
C7_ErrorCarriesPath ==
    (rd.n >= 1 /\ rd.name \in {"composer.json", "package.json", "package-lock.json"}) =>
        /\ rd.file.kind = "malformed" =>
             (rd.ret.err # Nil /\ rd.ret.err.Path = rd.dir \o <<rd.name>>)
        /\ rd.file.kind = "absent" => (rd.ret.err = Nil /\ rd.ret.stack = rd.stack)

\* C8: with PHP unset, composer.json records config.platform's php when it
\* is non-empty, and require's php only otherwise.
C8_PlatformBeforeRequire ==
    (/\ rd.n >= 1 /\ rd.name = "composer.json"
     /\ rd.file.kind = "json" /\ rd.stack["PHP"] = "")
    => rd.ret.stack["PHP"] =
         (IF IsSet(rd.file.platformPhp) THEN rd.file.platformPhp
          ELSE IF rd.file.requirePhp # None THEN rd.file.requirePhp ELSE "")

\* both places give a PHP version, and they differ
C8_Witness ==
    /\ rd.n >= 1 /\ rd.name = "composer.json"
    /\ rd.file.kind = "json" /\ rd.stack["PHP"] = ""
    /\ IsSet(rd.file.platformPhp) /\ IsSet(rd.file.requirePhp)
    /\ rd.file.platformPhp # rd.file.requirePhp
    /\ rd.ret.stack["PHP"] = rd.file.platformPhp

\* ------------------------------------------------------------------
\* Rule resolution: the version of one technology is turned into the
\* ordered list of general rules.  A string is the sequence of its
\* characters; a literal of the code that is never taken apart (a
\* technology name, "rules", "general", ".md") is one element.

MaxVersionLen == 3

Digits == {"0", "1", "2", "3", "4", "5", "6", "7", "8", "9"}
VersionChars == {"5", "3", ".", "^", " ", "x"}

Min(S) == CHOOSE i \in S : \A j \in S : i <= j

\* strings.Index: the first position of sep in s counted from 0, or -1
Index(s, sep) ==
    LET hits == {i \in 0..(Len(s) - Len(sep)) : SubSeq(s, i + 1, i + Len(sep)) = sep}
    IN  IF hits = {} THEN -1 ELSE Min(hits)

RECURSIVE Split(_, _)
\* strings.Split for a non-empty separator
Split(s, sep) ==
    LET i == Index(s, sep)
    IN  IF i < 0 THEN <<s>>
        ELSE <<SubSeq(s, 1, i)>> \o Split(SubSeq(s, i + Len(sep) + 1, Len(s)), sep)

RECURSIVE TrimLeft(_, _)
\* strings.TrimLeft: the leading characters of the cutset removed
TrimLeft(s, cutset) ==
    IF s # <<>> /\ Head(s) \in cutset THEN TrimLeft(Tail(s), cutset) ELSE s

RECURSIVE TrimRight(_, _)
TrimRight(s, cutset) ==
    IF s # <<>> /\ s[Len(s)] \in cutset
    THEN TrimRight(SubSeq(s, 1, Len(s) - 1), cutset) ELSE s

\* the white space strings.TrimSpace and bytes.TrimSpace remove
WhiteSpace == {" ", "\t", "\n", "\r"}

\* strings.TrimSpace
TrimSpace(s) == TrimRight(TrimLeft(s, WhiteSpace), WhiteSpace)

RECURSIVE LeadingNumeric(_)
\* the loop of normalizeVersion: runes copied up to the first one that is
\* neither a digit nor a dot
LeadingNumeric(s) ==
    IF s # <<>> /\ (Head(s) \in Digits \/ Head(s) = ".")
    THEN <<Head(s)>> \o LeadingNumeric(Tail(s)) ELSE <<>>

\* faulty variant: the range operators are not trimmed
normalizeVersion_NoTrimLeft(v) ==
    LET t == TrimSpace(v)
        a == Split(t, <<"|", "|">>)[1]
        b == Split(a, <<" ">>)[1]
    IN  IF t = <<>> THEN <<>> ELSE LeadingNumeric(b)

\* faulty variant: the loop copies every rune, it does not stop at the first
\* one that is neither a digit nor a dot
normalizeVersion_NoBreak(v) ==
    LET t == TrimSpace(v)
        a == Split(t, <<"|", "|">>)[1]
        b == Split(a, <<" ">>)[1]
        c == TrimLeft(b, {"^", "~", ">", "<", "=", " "})
    IN  IF t = <<>> THEN <<>> ELSE c

normalizeVersion(v) ==
    LET t == TrimSpace(v)
        a == Split(t, <<"|", "|">>)[1]
        b == Split(a, <<" ">>)[1]
        c == TrimLeft(b, {"^", "~", ">", "<", "=", " "})
    IN  IF t = <<>> THEN <<>> ELSE LeadingNumeric(c)

\* rules.Get(id) succeeds when the embedded file id + ".md" exists
ruleExists(id, store) == id \in store

\* faulty variant: the identifier appended without the existence test
addIfExists_Always(ids, id, store) == Append(ids, id)

addIfExists(ids, id, store) ==
    IF ruleExists(id, store) THEN Append(ids, id) ELSE ids

\* faulty variant: the major bucket tried before the major.minor bucket
addRulesFor_MajorFirst(ids, name, version, store) ==
    LET a == addIfExists(ids, <<name, "/", "general">>, store)
        norm == normalizeVersion(version)
        parts == Split(norm, <<".">>)
        major == parts[1]
        minor == IF Len(parts) > 1 THEN parts[2] ELSE <<>>
        b == IF major # <<>>
             THEN addIfExists(a, <<name, "/">> \o major \o <<"/", "general">>, store)
             ELSE a
        c == IF major # <<>> /\ minor # <<>>
             THEN addIfExists(b, <<name, "/">> \o major \o <<".">> \o minor
                                   \o <<"/", "general">>, store)
             ELSE b
    IN  IF version = <<>> THEN ids ELSE IF norm = <<>> THEN a ELSE c

\* addRulesFor of the embedded-rules generate command
addRulesFor(ids, name, version, store) ==
    LET a == addIfExists(ids, <<name, "/", "general">>, store)
        norm == normalizeVersion(version)
        parts == Split(norm, <<".">>)
        major == parts[1]
        minor == IF Len(parts) > 1 THEN parts[2] ELSE <<>>
        b == IF major # <<>> /\ minor # <<>>
             THEN addIfExists(a, <<name, "/">> \o major \o <<".">> \o minor
                                   \o <<"/", "general">>, store)
             ELSE a
        c == IF major # <<>>
             THEN addIfExists(b, <<name, "/">> \o major \o <<"/", "general">>, store)
             ELSE b
    IN  IF version = <<>> THEN ids ELSE IF norm = <<>> THEN a ELSE c

\* os.Stat(dir) succeeds and reports a directory
IsDir(dir, disk) == dir \in disk.dirs

\* filepath.Glob of a pattern without metacharacters: the path when it exists
Glob(pattern, disk) == IF pattern \in disk.files THEN <<pattern>> ELSE <<>>

\* addAllMarkdownInDir of the file-based generate command
addAllMarkdownInDir(files, dir, disk) ==
    IF ~IsDir(dir, disk) THEN files
    ELSE files \o Glob(dir \o <<"/", "general.md">>, disk)

\* addRulesFor of the file-based generate command
addRulesForFiles(files, name, version, disk) ==
    LET baseDir == <<"rules", "/", name>>
        a == Append(files, baseDir \o <<"/", "general.md">>)
        norm == normalizeVersion(version)
        parts == Split(norm, <<".">>)
        major == parts[1]
        minor == IF Len(parts) > 1 THEN parts[2] ELSE <<>>
        b == IF major # <<>> /\ minor # <<>>
             THEN addAllMarkdownInDir(a, baseDir \o <<"/">> \o major \o <<".">> \o minor, disk)
             ELSE a
        c == IF major # <<>>
             THEN addAllMarkdownInDir(b, baseDir \o <<"/">> \o major, disk)
             ELSE b
    IN  IF version = <<>> THEN files ELSE IF norm = <<>> THEN a ELSE c

\* norm, major and minor as addRulesFor and addAgentFor compute them
versionParts(version) ==
    LET norm == normalizeVersion(version)
        parts == Split(norm, <<".">>)
    IN  [norm |-> norm, major |-> parts[1],
         minor |-> IF Len(parts) > 1 THEN parts[2] ELSE <<>>]

agentFile(label, id) == [Label |-> label, ID |-> id]

\* addAgentFor of the embedded-rules generate command
addAgentFor(files, label, name, version, store) ==
    LET p == versionParts(version)
        minorId == <<name, "/">> \o p.major \o <<".">> \o p.minor \o <<"/", "agent">>
        majorId == <<name, "/">> \o p.major \o <<"/", "agent">>
        baseId == <<name, "/", "agent">>
    IN  IF version = <<>> THEN files
        ELSE IF p.major # <<>> /\ p.minor # <<>> /\ ruleExists(minorId, store)
        THEN Append(files, agentFile(label, minorId))
        ELSE IF p.major # <<>> /\ ruleExists(majorId, store)
        THEN Append(files, agentFile(label, majorId))
        ELSE IF ruleExists(baseId, store)
        THEN Append(files, agentFile(label, baseId))
        ELSE files

\* addAgentFor of the file-based generate command: the path is appended
\* without a look at the disk
addAgentForFiles(files, label, name, version) ==
    LET p == versionParts(version)
        baseDir == <<"rules", "/", name>>
    IN  IF version = <<>> THEN files
        ELSE IF p.major # <<>> /\ p.minor # <<>>
        THEN Append(files, agentFile(label, baseDir \o <<"/">> \o p.major \o <<".">>
                                              \o p.minor \o <<"/", "agent.md">>))
        ELSE IF p.major # <<>>
        THEN Append(files, agentFile(label, baseDir \o <<"/">> \o p.major
                                              \o <<"/", "agent.md">>))
        ELSE Append(files, agentFile(label, baseDir \o <<"/", "agent.md">>))

\* the identifiers addRulesFor passes to addIfExists, in the order of the calls
addRulesForProbes(name, version) ==
    LET p == versionParts(version)
        base == <<<<name, "/", "general">>>>
        minorId == IF p.major # <<>> /\ p.minor # <<>>
                   THEN <<<<name, "/">> \o p.major \o <<".">> \o p.minor \o <<"/", "general">>>>
                   ELSE <<>>
        majorId == IF p.major # <<>>
                   THEN <<<<name, "/">> \o p.major \o <<"/", "general">>>>
                   ELSE <<>>
    IN  IF version = <<>> THEN <<>>
        ELSE IF p.norm = <<>> THEN base
        ELSE base \o minorId \o majorId

\* the identifiers addAgentFor passes to ruleExists, in the order of the
\* calls: a call that finds its rule is the last one
addAgentForProbes(name, version, store) ==
    LET p == versionParts(version)
        minorId == <<name, "/">> \o p.major \o <<".">> \o p.minor \o <<"/", "agent">>
        majorId == <<name, "/">> \o p.major \o <<"/", "agent">>
        baseId == <<name, "/", "agent">>
        a == IF p.major # <<>> /\ p.minor # <<>> THEN <<minorId>> ELSE <<>>
        b == IF a # <<>> /\ ruleExists(minorId, store) THEN a
             ELSE IF p.major # <<>> THEN Append(a, majorId) ELSE a
        c == IF b # <<>> /\ ruleExists(b[Len(b)], store) THEN b
             ELSE Append(b, baseId)
    IN  IF version = <<>> THEN <<>> ELSE c

\* the label buildAgentRulesFromDetection passes with each name
Label(name) ==
    CASE name = "php" -> "PHP" [] name = "laravel" -> "Laravel"
      [] name = "nuxt" -> "Nuxt" [] name = "vue" -> "Vue"
      [] name = "nuxt_ui" -> "Nuxt UI"

\* the rule content a run finds: general.md of the technology itself, and
\* for each version bucket nothing, an empty directory, or general.md
RuleNames == {"php", "nuxt_ui"}
Buckets == {<<"5">>, <<"5", ".", "3">>, <<"3">>}
RuleContents == [base : BOOLEAN, bucket : [Buckets -> {"none", "dir", "file"}]]

\* the identifiers of the embedded rules
Store(name, content) ==
    {<<name, "/", "general">> : x \in {y \in {TRUE} : content.base}}
    \cup {<<name, "/">> \o b \o <<"/", "general">> :
            b \in {y \in Buckets : content.bucket[y] = "file"}}

\* the identifiers of the embedded agent rules, the content read as that
\* of the agent documents
AgentStore(name, content) ==
    {<<name, "/", "agent">> : x \in {y \in {TRUE} : content.base}}
    \cup {<<name, "/">> \o b \o <<"/", "agent">> :
            b \in {y \in Buckets : content.bucket[y] = "file"}}

\* the rules directory on disk
Disk(name, content) ==
    [dirs  |-> {<<"rules", "/", name>>} \cup
               {<<"rules", "/", name, "/">> \o b :
                  b \in {y \in Buckets : content.bucket[y] # "none"}},
     files |-> {<<"rules", "/", name, "/", "general.md">> :
                  x \in {y \in {TRUE} : content.base}}
               \cup {<<"rules", "/", name, "/">> \o b \o <<"/", "general.md">> :
                       b \in {y \in Buckets : content.bucket[y] = "file"}}]

\* version strings as a manifest may give them
SampleVersions ==
    { <<"^", "8", ".", "2", ".", "1">>,
      <<">", "=", "8", ".", "2", " ", "<", "9">>,
      <<"8", ".", "2", ".", "x">>,
      <<"^", "5", ".", "3", " ", "|", "|", " ", "^", "6", ".", "0">> }
\* a range operator in front of a numeric version, with and without a space
RangeOperators == {<<"^">>, <<"~">>, <<">">>, <<"<">>, <<"=">>, <<">", "=">>, <<"<", "=">>}
NumericVersions == {<<"5">>, <<"5", ".", "3">>}
OperatorVersions ==
    {x[1] \o x[2] \o x[3] : x \in RangeOperators \X {<<>>, <<" ">>} \X NumericVersions}

VersionStrings ==
    SampleVersions \cup OperatorVersions \cup UNION {[1..k -> VersionChars] : k \in 0..MaxVersionLen}

InitResolve ==
    /\ DetectIdle
    /\ rd = <<>>
    /\ gen = <<>>
    /\ \E name \in RuleNames : \E version \in VersionStrings :
       \E content \in RuleContents :
           rs = [name |-> name, version |-> version, content |-> content,
                 ids |-> <<>>, agents |-> <<>>, probed |-> <<>>,
                 parts |-> [norm |-> <<>>, major |-> <<>>, minor |-> <<>>],
                 pc |-> "start"]

\* addRulesFor(&ids, name, version), embedded rules
ResolveEmbedded ==
    /\ rs.pc = "start"
    /\ rs' = [rs EXCEPT !.ids = addRulesFor(<<>>, rs.name, rs.version,
                                            Store(rs.name, rs.content)),
                        !.probed = addRulesForProbes(rs.name, rs.version),
                        !.parts = versionParts(rs.version),
                        !.pc = "embedded"]
    /\ UNCHANGED <<detectVars, rd, gen>>

\* addRulesFor(&files, name, version), rules read from disk
ResolveFiles ==
    /\ rs.pc = "start"
    /\ rs' = [rs EXCEPT !.ids = addRulesForFiles(<<>>, rs.name, rs.version,
                                                 Disk(rs.name, rs.content)),
                        !.parts = versionParts(rs.version),
                        !.pc = "files"]
    /\ UNCHANGED <<detectVars, rd, gen>>

\* addAgentFor(&files, label, name, version), embedded rules
AgentEmbedded ==
    /\ rs.pc = "start"
    /\ rs' = [rs EXCEPT !.agents = addAgentFor(<<>>, Label(rs.name), rs.name, rs.version,
                                               AgentStore(rs.name, rs.content)),
                        !.probed = addAgentForProbes(rs.name, rs.version,
                                                     AgentStore(rs.name, rs.content)),
                        !.parts = versionParts(rs.version),
                        !.pc = "agentEmbedded"]
    /\ UNCHANGED <<detectVars, rd, gen>>

\* addAgentFor(&files, label, name, version), rules read from disk
AgentFiles ==
    /\ rs.pc = "start"
    /\ rs' = [rs EXCEPT !.agents = addAgentForFiles(<<>>, Label(rs.name), rs.name,
                                                    rs.version),
                        !.parts = versionParts(rs.version),
                        !.pc = "agentFiles"]
    /\ UNCHANGED <<detectVars, rd, gen>>

NextResolve == ResolveEmbedded \/ ResolveFiles \/ AgentEmbedded \/ AgentFiles

SpecResolve == InitResolve /\ [][NextResolve]_vars

\* the general rule of a bucket (<<>> for the technology itself), as the
\* command that built the list names it
General(name, b) ==
    LET under == IF b = <<>> THEN <<>> ELSE b \o <<"/">>
    IN  IF rs.pc = "embedded"
        THEN <<name, "/">> \o under \o <<"general">>
        ELSE <<"rules", "/", name, "/">> \o under \o <<"general.md">>

V53 == <<"5", ".", "3">>

\* version "5.3" resolved, content at the base, at 5 and at 5.3
AllThreeExist ==
    /\ rs.pc \in {"embedded", "files"}
    /\ rs.version = V53
    /\ rs.content.base
    /\ rs.content.bucket[<<"5">>] = "file"
    /\ rs.content.bucket[V53] = "file"

\* C10 as claimed: for version "5.3" with content at the base, at 5 and at
\* 5.3, the general list is the base rule, then the rule of 5, then the
\* rule of 5.3.
C10_BaseMajorMinor ==
    AllThreeExist =>
        rs.ids = <<General(rs.name, <<>>), General(rs.name, <<"5">>),
                   General(rs.name, V53)>>

\* C10 amended: for version "5.3" with content at the base, at 5 and at
\* 5.3, the general list is the base rule, then the rule of 5.3, then the
\* rule of 5, each once.
C10_BaseMinorMajor ==
    AllThreeExist =>
        rs.ids = <<General(rs.name, <<>>), General(rs.name, V53),
                   General(rs.name, <<"5">>)>>

C10_Witness ==
    /\ AllThreeExist
    /\ rs.pc = "embedded"
    /\ Len(rs.ids) = 3
    /\ rs.ids[2] = <<rs.name, "/", "5", ".", "3", "/", "general">>
    /\ rs.ids[3] = <<rs.name, "/", "5", "/", "general">>

\* the agent rule of a bucket (<<>> for the technology itself), as the
\* command that built the list names it
Agent(name, b) ==
    LET under == IF b = <<>> THEN <<>> ELSE b \o <<"/">>
    IN  IF rs.pc = "agentEmbedded"
        THEN <<name, "/">> \o under \o <<"agent">>
        ELSE <<"rules", "/", name, "/">> \o under \o <<"agent.md">>

\* agent content exists for bucket b
HasAgent(b) ==
    IF b = <<>> THEN rs.content.base
    ELSE b \in Buckets /\ rs.content.bucket[b] = "file"

\* C11 as claimed: for a version with major M and minor m, both commands
\* select the first of tech/M.m/agent, tech/M/agent and tech/agent that has
\* content, nothing when none has, and never more than one.
C11_FirstExistingAgent ==
    (/\ rs.pc \in {"agentEmbedded", "agentFiles"}
     /\ rs.parts.major # <<>> /\ rs.parts.minor # <<>>)
    => LET Mm == rs.parts.major \o <<".">> \o rs.parts.minor
           M == rs.parts.major
           pick == IF HasAgent(Mm) THEN <<Mm>>
                   ELSE IF HasAgent(M) THEN <<M>>
                   ELSE IF HasAgent(<<>>) THEN <<<<>>>> ELSE <<>>
       IN  rs.agents = [i \in 1..Len(pick) |->
                          agentFile(Label(rs.name), Agent(rs.name, pick[i]))]

\* C12: "^8.2.1", ">=8.2 <9" and "8.2.x" all give major "8" and minor "2".
C12_MajorMinorOfSamples ==
    (/\ rs.pc # "start"
     /\ rs.version \in { <<"^", "8", ".", "2", ".", "1">>,
                         <<">", "=", "8", ".", "2", " ", "<", "9">>,
                         <<"8", ".", "2", ".", "x">> })
    => (rs.parts.major = <<"8">> /\ rs.parts.minor = <<"2">>)

\* ">=8.2 <9" resolved
C12_Witness ==
    /\ rs.pc = "embedded"
    /\ rs.version = <<">", "=", "8", ".", "2", " ", "<", "9">>
    /\ rs.parts.norm = <<"8", ".", "2">>
    /\ rs.parts.major = <<"8">> /\ rs.parts.minor = <<"2">>

\* C13 as claimed: a range operator in front of a numeric version N, with
\* or without a space after it, gives the major and minor of N.
C13_OperatorAndSpaceStripped ==
    \A op \in RangeOperators : \A sp \in {<<>>, <<" ">>} :
      \A N \in NumericVersions :
        (rs.pc # "start" /\ rs.version = op \o sp \o N)
        => /\ rs.parts.major = <<N[1]>>
           /\ rs.parts.minor = (IF Len(N) > 1 THEN <<N[3]>> ELSE <<>>)

\* the version as normalizeVersion has it before its loop: outer white
\* space, the alternatives after "||", what follows the first space and the
\* leading range operators removed
Stripped(v) ==
    TrimLeft(Split(Split(TrimSpace(v), <<"|", "|">>)[1], <<" ">>)[1],
             {"^", "~", ">", "<", "=", " "})

\* a non-empty version without a leading numeric component
NoLeadingNumber(v) ==
    v # <<>> /\ (Stripped(v) = <<>> \/ Head(Stripped(v)) \notin Digits)

\* the bucket of an identifier name/bucket/kind, <<>> for name/kind
BucketOf(id) == SubSeq(id, 3, Len(id) - 2)

\* digits, or digits "." digits
NumericBucket(b) ==
    /\ b # <<>> /\ Head(b) \in Digits /\ b[Len(b)] \in Digits
    /\ \A i \in 1..Len(b) : b[i] \in Digits \cup {"."}
    /\ Cardinality({i \in 1..Len(b) : b[i] = "."}) <= 1

\* C30: for a non-empty version without a leading numeric component, the
\* general resolution asks only for name/general and the agent resolution
\* only for name/agent, and the lists hold nothing else; no identifier
\* with an empty or non-numeric bucket is asked for or listed for any
\* version.
C30_NonNumericBaseOnly ==
    /\ (rs.pc = "embedded" /\ NoLeadingNumber(rs.version)) =>
         /\ rs.probed = <<<<rs.name, "/", "general">>>>
         /\ rs.ids = IF rs.content.base THEN rs.probed ELSE <<>>
    /\ (rs.pc = "agentEmbedded" /\ NoLeadingNumber(rs.version)) =>
         /\ rs.probed = <<<<rs.name, "/", "agent">>>>
         /\ rs.agents = IF rs.content.base
                        THEN <<agentFile(Label(rs.name), rs.probed[1])>> ELSE <<>>
    /\ rs.pc \in {"embedded", "agentEmbedded"} =>
         /\ \A i \in 1..Len(rs.probed) :
               Len(rs.probed[i]) > 3 => NumericBucket(BucketOf(rs.probed[i]))
         /\ \A i \in 1..Len(rs.ids) : \E k \in 1..Len(rs.probed) : rs.ids[i] = rs.probed[k]
         /\ \A i \in 1..Len(rs.agents) :
               \E k \in 1..Len(rs.probed) : rs.agents[i].ID = rs.probed[k]

\* version "x5" resolved against a store that has name/general and
\* name/5/general: only the base rule is asked for and listed
C30_Witness ==
    /\ rs.pc = "embedded"
    /\ rs.version = <<"x", "5">>
    /\ rs.content.base /\ rs.content.bucket[<<"5">>] = "file"
    /\ rs.ids = <<<<rs.name, "/", "general">>>>
    /\ rs.probed = rs.ids

\* ------------------------------------------------------------------
\* The generate command (embedded rules).  A document is the sequence of
\* the pieces written to it; a literal of the code is one piece, the
\* content of a rule is the pieces of Text.

MaxRules == 2

Sep == "\n\n---\n\n"

\* the embedded rules: the identifiers that have a file, and those among
\* them whose file is empty
Text(id) == <<"<content of ">> \o id \o <<">">>

\* rules.Get(id)
Get(id, st) ==
    IF id \in st.have
    THEN [data |-> IF id \in st.blank THEN <<>> ELSE Text(id), err |-> FALSE]
    ELSE [data |-> <<>>, err |-> TRUE]

\* strings.TrimSuffix
TrimSuffix(s, suffix) ==
    IF Len(s) >= Len(suffix) /\ SubSeq(s, Len(s) - Len(suffix) + 1, Len(s)) = suffix
    THEN SubSeq(s, 1, Len(s) - Len(suffix)) ELSE s

RECURSIVE Join(_, _)
\* strings.Join
Join(parts, sep) ==
    IF parts = <<>> THEN <<>>
    ELSE IF Len(parts) = 1 THEN parts[1]
    ELSE parts[1] \o sep \o Join(Tail(parts), sep)

deriveRuleLabel(id) ==
    Join(Split(TrimSuffix(TrimSuffix(id, <<"/", "general">>), <<"/", "agent">>),
               <<"/">>), <<" ">>)

\* the comment written for an identifier without content
MissingInstructions(id) ==
    <<"<!-- Missing instructions for ">> \o deriveRuleLabel(id)
    \o <<" (expected file: rules/">> \o id \o <<".md) -->">>

RECURSIVE MergeFrom(_, _, _)
\* the loop of loadAndMergeRules, b the text written so far
MergeFrom(b, ids, st) ==
    IF ids = <<>> THEN b
    ELSE LET r == Get(Head(ids), st)
             b1 == IF Len(b) > 0 THEN Append(b, Sep) ELSE b
             b2 == IF r.err THEN b1 \o MissingInstructions(Head(ids)) ELSE b1 \o r.data
         IN  MergeFrom(b2, Tail(ids), st)

loadAndMergeRules(ids, st) == [text |-> MergeFrom(<<>>, ids, st), err |-> Nil]

StackLabels == <<"PHP", "Laravel", "Nuxt", "Vue", "NuxtUI">>
Bullet(t) ==
    CASE t = "PHP" -> "- PHP: " [] t = "Laravel" -> "- Laravel: "
      [] t = "Nuxt" -> "- Nuxt: " [] t = "Vue" -> "- Vue: "
      [] t = "NuxtUI" -> "- Nuxt UI: "

RECURSIVE StackLines(_, _)
\* lines of buildStackSection, from field i on
StackLines(s, i) ==
    IF i > Len(StackLabels) THEN <<>>
    ELSE (IF s[StackLabels[i]] # <<>>
          THEN << <<Bullet(StackLabels[i])>> \o s[StackLabels[i]] >> ELSE <<>>)
         \o StackLines(s, i + 1)

\* faulty variant: the bullets in reverse order
buildStackSection_Reversed(s) ==
    LET lines == StackLines(s, 1)
        rev == [i \in 1..Len(lines) |-> lines[Len(lines) + 1 - i]]
    IN  IF lines = <<>> THEN <<>>
        ELSE <<"## Stack\n\n">> \o Join(rev, <<"\n">>)

\* buildStackSection for a stack that is not nil
buildStackSection(s) ==
    LET lines == StackLines(s, 1)
    IN  IF lines = <<>> THEN <<>>
        ELSE <<"## Stack\n\n">> \o Join(lines, <<"\n">>)

\* the comment written for an agent entry without content
MissingAgent(af) ==
    <<"<!-- Missing agent instructions for ">> \o af.Label
    \o <<" (expected file: rules/">> \o af.ID \o <<".md) -->">>

RECURSIVE AgentsFrom(_, _, _, _)
\* the loop of buildAgentContent, entry i on, b the text written so far
AgentsFrom(b, files, i, st) ==
    IF i > Len(files) THEN b
    ELSE LET af == files[i]
             r == Get(af.ID, st)
             b1 == IF i > 1 THEN Append(b, Sep) ELSE b
             b2 == b1 \o <<"## ">> \o af.Label \o <<"\n\n">>
             b3 == IF r.err THEN b2 \o MissingAgent(af) ELSE b2 \o r.data
         IN  AgentsFrom(b3, files, i + 1, st)

AgentsHeader ==
    <<"# Agents\n\n",
      "<!-- Generated by ai-instructions. Do not edit manually. -->\n\n---\n\n">>

\* faulty variant: an entry without content gets no heading
buildAgentContent_NoHeadingForMissing(files, st) ==
    AgentsFrom(AgentsHeader, SelectSeq(files, LAMBDA af : af.ID \in st.have), 1, st)

buildAgentContent(files, st) == AgentsFrom(AgentsHeader, files, 1, st)

RECURSIVE buildGeneralRulesFromFlags(_, _)
\* the loop over flagRules; filepath.ToSlash changes nothing where the
\* separator is "/"
buildGeneralRulesFromFlags(flagRules, st) ==
    IF flagRules = <<>> THEN <<>>
    ELSE LET r == TrimSpace(Head(flagRules))
             dirGeneral == r \o <<"/", "general">>
             this == IF r = <<>> THEN <<>>
                     ELSE IF ruleExists(dirGeneral, st.have) THEN <<dirGeneral>>
                     ELSE IF ruleExists(r, st.have) THEN <<r>>
                     ELSE <<>>
         IN  this \o buildGeneralRulesFromFlags(Tail(flagRules), st)

RECURSIVE buildAgentRulesFromFlags(_, _)
buildAgentRulesFromFlags(flagRules, st) ==
    IF flagRules = <<>> THEN <<>>
    ELSE LET r == TrimSpace(Head(flagRules))
             id == r \o <<"/", "agent">>
             this == IF r # <<>> /\ ruleExists(id, st.have)
                     THEN <<agentFile(deriveRuleLabel(id), id)>> ELSE <<>>
         IN  this \o buildAgentRulesFromFlags(Tail(flagRules), st)

\* field of the record, rule name and label, in the order of the calls
StackNames ==
    << <<"PHP", "php", "PHP">>, <<"Laravel", "laravel", "Laravel">>,
       <<"Nuxt", "nuxt", "Nuxt">>, <<"Vue", "vue", "Vue">>,
       <<"NuxtUI", "nuxt_ui", "Nuxt UI">> >>

RECURSIVE RulesFrom(_, _, _, _)
RulesFrom(ids, s, i, st) ==
    IF i > Len(StackNames) THEN ids
    ELSE RulesFrom(addRulesFor(ids, StackNames[i][2], s[StackNames[i][1]], st.have),
                   s, i + 1, st)

buildGeneralRulesFromDetection(s, st) == RulesFrom(<<>>, s, 1, st)

RECURSIVE AgentRulesFrom(_, _, _, _)
AgentRulesFrom(files, s, i, st) ==
    IF i > Len(StackNames) THEN files
    ELSE AgentRulesFrom(addAgentFor(files, <<StackNames[i][3]>>, StackNames[i][2],
                                    s[StackNames[i][1]], st.have),
                        s, i + 1, st)

buildAgentRulesFromDetection(s, st) == AgentRulesFrom(<<>>, s, 1, st)

\* what a run of generate finds: versions of the record, rules, selectors
V210 == <<"2", ".", "1", ".", "0">>
GenVersions == {<<>>, V210}
RuleIds ==
    { <<"php", "/", "general">>, <<"php", "/", "2", "/", "general">>,
      <<"php", "/", "2", ".", "1", "/", "general">>,
      <<"php", "/", "agent">>, <<"php", "/", "2", ".", "1", "/", "agent">>,
      <<"laravel", "/", "general">> }
BlankIds == {<<"php", "/", "general">>, <<"php", "/", "agent">>}
Stores ==
    UNION {{[have |-> h, blank |-> b] : b \in SUBSET (h \cap BlankIds)} :
             h \in SUBSET RuleIds}
Selectors ==
    { <<"php">>, <<" ", "php">>, <<"php", "/", "2">>, <<"php", "/", "general">>,
      <<"nosuch">>, <<>> }
FlagLists == UNION {[1..k -> Selectors] : k \in 0..MaxRules}

\* DetectStack as generate sees it: a record, or an error
DetectResults ==
    {Returned(<<s>>, Nil) : s \in [Techs -> GenVersions]}
    \cup {Returned(<<>>, PathError(<<"composer.json">>))}
NotCalled == Returned(<<>>, Nil)

\* --out "-" prints; otherwise writes is the number of writes that succeed
Outputs == {[flagOut |-> "-", writes |-> 2]}
           \cup {[flagOut |-> "", writes |-> w] : w \in {0, 1, 2}}

NoDoc == <<"<nothing>">>
NothingSelected == <<"No rule files selected - nothing to generate.">>
WriteError == [type |-> "PathError", Path |-> <<"<output>">>]

InitGenerate ==
    /\ DetectIdle
    /\ rd = <<>>
    /\ rs = <<>>
    /\ \E flagRules \in FlagLists : \E st \in Stores : \E out \in Outputs :
       \E detect \in (IF flagRules = <<>> THEN DetectResults ELSE {NotCalled}) :
           gen = [flagRules |-> flagRules, store |-> st, out |-> out,
                  detect |-> detect, pc |-> "start",
                  generalRuleIDs |-> <<>>, agentRuleIDs |-> <<>>,
                  merged |-> NoDoc, copilot |-> NoDoc, agentsMd |-> NoDoc,
                  agentContent |-> NoDoc, printed |-> <<>>, err |-> Nil]

anyRuleFlagsSet == Len(gen.flagRules) > 0

\* the outputs of generateCmd.RunE once the lists of rules are built: the
\* general document goes to the copilot file and to AGENTS.md, the agent
\* document is printed only
OutputsOfRules(general, agents, section, st) ==
    LET merged == loadAndMergeRules(general, st).text
        content == IF section # <<>> THEN section \o <<Sep>> \o merged ELSE merged
        writes == IF gen.out.flagOut = "-" THEN 2 ELSE gen.out.writes
    IN  IF Len(general) > 0 /\ writes < 2
        THEN [gen EXCEPT !.pc = "done", !.err = WriteError,
                         !.generalRuleIDs = general, !.agentRuleIDs = agents,
                         !.merged = merged,
                         !.copilot = IF writes >= 1 THEN content ELSE gen.copilot]
        ELSE [gen EXCEPT !.pc = "done",
                         !.generalRuleIDs = general, !.agentRuleIDs = agents,
                         !.merged = IF Len(general) > 0 THEN merged ELSE NoDoc,
                         !.copilot = IF Len(general) > 0 THEN content ELSE gen.copilot,
                         !.agentsMd = IF Len(general) > 0 THEN content ELSE gen.agentsMd,
                         !.agentContent = IF Len(agents) > 0
                                          THEN buildAgentContent(agents, st) ELSE NoDoc,
                         !.printed = IF Len(general) = 0 /\ Len(agents) = 0
                                     THEN NothingSelected ELSE <<>>]

\* generateCmd.RunE
RunE ==
    /\ gen.pc = "start"
    /\ IF anyRuleFlagsSet
       THEN gen' = OutputsOfRules(buildGeneralRulesFromFlags(gen.flagRules, gen.store),
                                  buildAgentRulesFromFlags(gen.flagRules, gen.store),
                                  <<>>, gen.store)
       ELSE IF gen.detect.err # Nil
       THEN gen' = [gen EXCEPT !.pc = "done", !.err = gen.detect.err]
       ELSE gen' = OutputsOfRules(buildGeneralRulesFromDetection(gen.detect.stack[1], gen.store),
                                  buildAgentRulesFromDetection(gen.detect.stack[1], gen.store),
                                  buildStackSection(gen.detect.stack[1]), gen.store)
    /\ UNCHANGED <<detectVars, rd, rs>>

NextGenerate == RunE

SpecGenerate == InitGenerate /\ [][NextGenerate]_vars

\* ------------------------------------------------------------------
\* The merge functions on their own, for any list of identifiers.

\* the file of a rule in the rules directory on disk
RulePath(id) == <<"rules", "/">> \o id \o <<".md">>

\* a path with its last element spelled in two parts, name and ".md"
Canon(path) ==
    LET n == Len(path)
    IN  IF n > 0 /\ path[n] = "general.md"
        THEN SubSeq(path, 1, n - 1) \o <<"general", ".md">>
        ELSE IF n > 0 /\ path[n] = "agent.md"
        THEN SubSeq(path, 1, n - 1) \o <<"agent", ".md">>
        ELSE path

\* os.ReadFile(path), the disk holding the files of st
ReadFile(path, st) ==
    LET ids == {id \in st.have : RulePath(id) = Canon(path)}
    IN  IF ids = {} THEN [data |-> <<>>, err |-> TRUE]
        ELSE [data |-> IF ids \cap st.blank # {} THEN <<>> ELSE Text(CHOOSE id \in ids : TRUE),
              err |-> FALSE]

RECURSIVE AgentFilesFrom(_, _, _, _)
\* the loop of buildAgentContent of the file-based command; ID holds Path
AgentFilesFrom(b, files, i, st) ==
    IF i > Len(files) THEN b
    ELSE LET af == files[i]
             r == ReadFile(af.ID, st)
             b1 == IF i > 1 THEN Append(b, Sep) ELSE b
             b2 == b1 \o <<"## ">> \o af.Label \o <<"\n\n">>
             b3 == IF r.err
                   THEN b2 \o <<"<!-- Missing agent instructions for ">> \o af.Label
                           \o <<" (expected file: ">> \o af.ID \o <<") -->">>
                   ELSE b2 \o r.data
         IN  AgentFilesFrom(b3, files, i + 1, st)

AgentsHeaderFiles ==
    <<"# Agents\n\n",
      "<!-- This file is generated by ai-instructions. Do not edit manually. -->\n\n",
      "---\n\n">>

\* buildAgentContent of the file-based command
buildAgentContentFiles(files, st) == AgentFilesFrom(AgentsHeaderFiles, files, 1, st)

MergeIds == RuleIds \cup {<<"nosuch">>}
IdLists == UNION {[1..k -> MergeIds] : k \in 0..MaxRules}

InitMerge ==
    /\ DetectIdle
    /\ rd = <<>>
    /\ rs = <<>>
    /\ \E ids \in IdLists : \E st \in Stores :
           gen = [ids |-> ids, store |-> st, pc |-> "start",
                  files |-> <<>>, text |-> NoDoc, err |-> Nil]

\* loadAndMergeRules(ids)
CallLoadAndMergeRules ==
    /\ gen.pc = "start"
    /\ LET r == loadAndMergeRules(gen.ids, gen.store)
       IN  gen' = [gen EXCEPT !.pc = "merged", !.text = r.text, !.err = r.err]
    /\ UNCHANGED <<detectVars, rd, rs>>

\* buildAgentContent(files), each identifier under the label derived from it
CallBuildAgentContent ==
    /\ gen.pc = "start"
    /\ LET files == [i \in 1..Len(gen.ids) |->
                       agentFile(deriveRuleLabel(gen.ids[i]), gen.ids[i])]
       IN  gen' = [gen EXCEPT !.pc = "agents", !.files = files,
                              !.text = buildAgentContent(files, gen.store)]
    /\ UNCHANGED <<detectVars, rd, rs>>

\* buildAgentContent(files) of the file-based command
CallBuildAgentContentFiles ==
    /\ gen.pc = "start"
    /\ LET files == [i \in 1..Len(gen.ids) |->
                       agentFile(deriveRuleLabel(gen.ids[i]), RulePath(gen.ids[i]))]
       IN  gen' = [gen EXCEPT !.pc = "agentFiles", !.files = files,
                              !.text = buildAgentContentFiles(files, gen.store)]
    /\ UNCHANGED <<detectVars, rd, rs>>

NextMerge ==
    CallLoadAndMergeRules \/ CallBuildAgentContent \/ CallBuildAgentContentFiles

SpecMerge == InitMerge /\ [][NextMerge]_vars

(***************************************************************************)
(* Properties of the generate command (SpecGenerate, SpecMerge)            *)
(***************************************************************************)
NoDuplicates(seq) == \A i, j \in 1..Len(seq) : seq[i] = seq[j] => i = j

\* doc holds the pieces of part, one after the other
Contains(doc, part) ==
    \E i \in 0..(Len(doc) - Len(part)) : SubSeq(doc, i + 1, i + Len(part)) = part

\* C14 as claimed: no resolved list, general or agent, names an identifier
\* twice.
C14_NoDuplicateIds ==
    gen.pc = "done" =>
        /\ NoDuplicates(gen.generalRuleIDs)
        /\ NoDuplicates([i \in 1..Len(gen.agentRuleIDs) |-> gen.agentRuleIDs[i].ID])

\* C15 as claimed: in manual mode, with the output writable, every selector
\* whose general identifier has no content leaves a placeholder comment
\* naming that identifier in the general document, and the run ends
\* without error.
C15_MissingSelectorPlaceholder ==
    (gen.pc = "done" /\ anyRuleFlagsSet /\ gen.out.writes = 2) =>
        \A i \in 1..Len(gen.flagRules) :
            LET r == TrimSpace(gen.flagRules[i])
                id == r \o <<"/", "general">>
            IN  (r # <<>> /\ id \notin gen.store.have /\ r \notin gen.store.have)
                => /\ gen.err = Nil
                   /\ gen.copilot # NoDoc
                   /\ Contains(gen.copilot, MissingInstructions(id))

\* the piece of an identifier in the merged text
Piece(id, st) ==
    IF id \notin st.have THEN MissingInstructions(id)
    ELSE IF id \in st.blank THEN <<>> ELSE Text(id)

\* C16 as claimed: loadAndMergeRules returns no error and the pieces of the
\* identifiers, in order, joined by the separator: n pieces, n-1 separators.
C16_PlainJoin ==
    gen.pc = "merged" =>
        /\ gen.err = Nil
        /\ gen.text = Join([i \in 1..Len(gen.ids) |-> Piece(gen.ids[i], gen.store)],
                           <<Sep>>)

\* the section of an agent entry: heading, then content or placeholder
Section(af, st) ==
    <<"## ">> \o af.Label \o <<"\n\n">>
    \o (IF gen.pc = "agents"
        THEN IF af.ID \in st.have
             THEN (IF af.ID \in st.blank THEN <<>> ELSE Text(af.ID))
             ELSE MissingAgent(af)
        ELSE IF \E id \in st.have : RulePath(id) = af.ID
             THEN (IF \E id \in st.blank : RulePath(id) = af.ID THEN <<>>
                   ELSE Text(CHOOSE id \in st.have : RulePath(id) = af.ID))
             ELSE <<"<!-- Missing agent instructions for ">> \o af.Label
                  \o <<" (expected file: ">> \o af.ID \o <<") -->">>)

\* C17: the agent document is the title and the notice, then one section
\* per entry in order, the separator between consecutive sections; an entry
\* without content keeps its heading and gets the placeholder.
C17_AgentSections ==
    gen.pc \in {"agents", "agentFiles"} =>
        /\ gen.text[1] = "# Agents\n\n"
        /\ gen.text =
             (IF gen.pc = "agents" THEN AgentsHeader ELSE AgentsHeaderFiles)
             \o Join([i \in 1..Len(gen.files) |-> Section(gen.files[i], gen.store)],
                     <<Sep>>)

\* two entries, the first one without content
C17_Witness ==
    /\ gen.pc = "agents"
    /\ Len(gen.files) = 2
    /\ gen.files[1].ID \notin gen.store.have
    /\ gen.files[2].ID \in gen.store.have \ gen.store.blank
    /\ Contains(gen.text, <<"## ">> \o gen.files[1].Label \o <<"\n\n">>
                          \o MissingAgent(gen.files[1]) \o <<Sep, "## ">>)

\* the record generate works on, in automatic mode after a detection
\* that succeeded
AutoStack == gen.detect.stack[1]

\* C18: in automatic mode with some version non-empty, the general document
\* is "## Stack", one bullet for each technology with a non-empty version
\* in the order PHP, Laravel, Nuxt, Vue, Nuxt UI, the separator, and the
\* merged body.
C18_StackHeader ==
    (/\ gen.pc = "done" /\ ~anyRuleFlagsSet /\ gen.copilot # NoDoc
     /\ \E t \in Techs : AutoStack[t] # <<>>)
    => LET set == SelectSeq(<<"PHP", "Laravel", "Nuxt", "Vue", "NuxtUI">>,
                            LAMBDA t : AutoStack[t] # <<>>)
           bullets == [i \in 1..Len(set) |-> <<Bullet(set[i])>> \o AutoStack[set[i]]]
       IN  gen.copilot = <<"## Stack\n\n">> \o Join(bullets, <<"\n">>)
                         \o <<Sep>> \o gen.merged

\* PHP and Vue detected, Laravel not, rules for PHP
C18_Witness ==
    /\ gen.pc = "done" /\ ~anyRuleFlagsSet /\ gen.err = Nil
    /\ gen.copilot # NoDoc
    /\ AutoStack["PHP"] # <<>> /\ AutoStack["Laravel"] = <<>> /\ AutoStack["Vue"] # <<>>
    /\ SubSeq(gen.copilot, 1, 2) = <<"## Stack\n\n", "- PHP: ">>
    /\ Contains(gen.copilot, V210 \o <<"\n", "- Vue: ">> \o V210 \o <<Sep>>)

\* PHP alone detected at "2.1.0", content at php/general and
\* php/2/general and not at php/2.1/general
Scenario ==
    /\ gen.pc = "done" /\ ~anyRuleFlagsSet /\ gen.copilot # NoDoc
    /\ AutoStack = [t \in Techs |-> IF t = "PHP" THEN V210 ELSE <<>>]
    /\ <<"php", "/", "general">> \in gen.store.have \ gen.store.blank
    /\ <<"php", "/", "2", "/", "general">> \in gen.store.have
    /\ <<"php", "/", "2", ".", "1", "/", "general">> \notin gen.store.have

\* C20: in that scenario the general document is the stack header with the
\* version, the separator, the content of php/general, the separator and
\* the content of php/2/general, and nothing else.
C20_EndToEnd ==
    Scenario =>
        gen.copilot = <<"## Stack\n\n", "- PHP: ", "2", ".", "1", ".", "0", Sep,
                        "<content of ", "php", "/", "general", ">", Sep,
                        "<content of ", "php", "/", "2", "/", "general", ">">>

C20_Witness ==
    /\ Scenario
    /\ gen.err = Nil
    /\ gen.generalRuleIDs = << <<"php", "/", "general">>,
                               <<"php", "/", "2", "/", "general">> >>
    /\ ~Contains(gen.copilot, <<"<!-- Missing instructions for ">>)

\* ------------------------------------------------------------------
\* The standalone generator: templates of headed sections are merged into
\* one list of sections.  A heading, a text and a bullet are strings, the
\* sequences of their characters.

MaxSections == 3

TemplateSection(heading, text, bullets) ==
    [Heading |-> heading, Text |-> text, Bullets |-> bullets]
Template(title, sections) == [Title |-> title, Sections |-> sections]

\* trimAll: every string trimmed, the empty ones dropped
trimAll(in) ==
    SelectSeq([i \in 1..Len(in) |-> TrimSpace(in[i])], LAMBDA v : v # <<>>)

RECURSIVE BulletsFrom(_, _)
\* the loop of mergeBullets: out so far, the strings still to look at
BulletsFrom(out, rest) ==
    IF rest = <<>> THEN out
    ELSE LET v == TrimSpace(Head(rest))
             seen == {out[i] : i \in 1..Len(out)}
         IN  BulletsFrom(IF v = <<>> \/ v \in seen THEN out ELSE Append(out, v),
                         Tail(rest))

mergeBullets(a, b) == BulletsFrom(<<>>, a \o b)

RECURSIVE TitleFrom(_)
\* the first title that is not blank, <<>> when there is none
TitleFrom(templates) ==
    IF templates = <<>> THEN <<>>
    ELSE IF TrimSpace(Head(templates).Title) # <<>> THEN Head(templates).Title
    ELSE TitleFrom(Tail(templates))

RECURSIVE AllSections(_)
\* the sections in the order the two loops of mergeTemplates reach them
AllSections(templates) ==
    IF templates = <<>> THEN <<>>
    ELSE Head(templates).Sections \o AllSections(Tail(templates))

RECURSIVE SectionsFrom(_, _)
\* the body of the loops: merged so far, the sections still to look at;
\* index[h] is the place of the first section whose trimmed heading is h
SectionsFrom(merged, rest) ==
    IF rest = <<>> THEN merged
    ELSE LET s == Head(rest)
             h == TrimSpace(s.Heading)
             at == {i \in 1..Len(merged) : TrimSpace(merged[i].Heading) = h}
             idx == Min(at)
             m == merged[idx]
             text == IF TrimSpace(s.Text) = <<>> THEN m.Text
                     ELSE IF TrimSpace(m.Text) = <<>> THEN s.Text
                     ELSE IF TrimSpace(m.Text) # TrimSpace(s.Text)
                     THEN TrimSpace(m.Text) \o <<"\n", "\n">> \o TrimSpace(s.Text)
                     ELSE m.Text
             next == IF h = <<>> THEN merged
                     ELSE IF at # {}
                     THEN [merged EXCEPT ![idx] =
                             TemplateSection(m.Heading, text, mergeBullets(m.Bullets, s.Bullets))]
                     ELSE Append(merged, TemplateSection(s.Heading, s.Text, trimAll(s.Bullets)))
         IN  SectionsFrom(next, Tail(rest))

\* mergeTemplates(templates, sets): the title and the merged sections
mergeTemplates(templates, sets) ==
    LET t == TitleFrom(templates)
    IN  [title |-> IF t # <<>> THEN t
                   ELSE <<"Copilot instructions (">>
                        \o Join([i \in 1..Len(sets) |-> <<sets[i]>>], <<" + ">>)
                        \o <<")">>,
         sections |-> SectionsFrom(<<>>, AllSections(templates))]

\* the sections a template file may hold
Headings == {<<"H">>, <<"H", " ">>, <<"K">>, <<" ">>}
Texts == {<<>>, <<"a">>, <<"b">>}
BulletLists == {<<>>, << <<"x">>, <<"x">> >>, << <<"x", " ">>, <<"X">> >>}
Sections ==
    {TemplateSection(x[1], x[2], x[3]) : x \in Headings \X Texts \X BulletLists}
Titles == {<<>>, <<"T">>}

\* one or two templates that hold n sections between them
InitTemplates ==
    /\ DetectIdle
    /\ rd = <<>>
    /\ rs = <<>>
    /\ \E n \in 0..MaxSections : \E secs \in [1..n -> Sections] :
       \E k \in 0..n : \E title \in Titles : \E two \in BOOLEAN :
           /\ (~two => k = n)
           /\ gen = [templates |->
                       IF two
                       THEN <<Template(<<>>, SubSeq(secs, 1, k)),
                              Template(title, SubSeq(secs, k + 1, n))>>
                       ELSE <<Template(title, secs)>>,
                     sets |-> IF two THEN <<"php", "laravel">> ELSE <<"php">>,
                     pc |-> "start", title |-> <<>>, sections |-> <<>>]

\* title, merged := mergeTemplates(templates, sets)
CallMergeTemplates ==
    /\ gen.pc = "start"
    /\ LET r == mergeTemplates(gen.templates, gen.sets)
       IN  gen' = [gen EXCEPT !.pc = "merged", !.title = r.title,
                              !.sections = r.sections]
    /\ UNCHANGED <<detectVars, rd, rs>>

NextTemplates == CallMergeTemplates

SpecTemplates == InitTemplates /\ [][NextTemplates]_vars

(***************************************************************************)
(* Properties of the template merge (SpecTemplates)                        *)
(***************************************************************************)
\* the elements of seq in the order of their first occurrence, each once
FirstSeen(seq) ==
    LET keep == {i \in 1..Len(seq) : \A j \in 1..(i - 1) : seq[j] # seq[i]}
    IN  [k \in 1..Cardinality(keep) |->
           seq[CHOOSE i \in keep : Cardinality({j \in keep : j <= i}) = k]]

NonEmpty(seq) == SelectSeq(seq, LAMBDA v : v # <<>>)

RECURSIVE BulletsOf(_)
\* the bullets of the sections of src, trimmed, one source after the other
BulletsOf(src) ==
    IF src = <<>> THEN <<>>
    ELSE [i \in 1..Len(Head(src).Bullets) |-> TrimSpace(Head(src).Bullets[i])]
         \o BulletsOf(Tail(src))

\* the input sections whose trimmed heading is h, in order of appearance
Sources(h) ==
    SelectSeq(AllSections(gen.templates), LAMBDA s : TrimSpace(s.Heading) = h)

\* the distinct trimmed headings of the input that are not empty
InputHeadings ==
    LET all == AllSections(gen.templates)
    IN  FirstSeen(NonEmpty([i \in 1..Len(all) |-> TrimSpace(all[i].Heading)]))

\* C24 as claimed: the merged list has each distinct trimmed heading once,
\* in order of first appearance; for sections sharing a heading the merged
\* text is the distinct non-empty texts joined by a blank line in order of
\* appearance, and the merged bullets are the distinct trimmed non-empty
\* bullets of the sources in first-seen order.
C24_MergeByHeading ==
    gen.pc = "merged" =>
        /\ [i \in 1..Len(gen.sections) |-> TrimSpace(gen.sections[i].Heading)]
             = InputHeadings
        /\ \A i \in 1..Len(gen.sections) :
             LET src == Sources(InputHeadings[i])
                 texts == FirstSeen(NonEmpty([j \in 1..Len(src) |->
                                                TrimSpace(src[j].Text)]))
             IN  Len(src) > 1 =>
                   /\ TrimSpace(gen.sections[i].Text) = Join(texts, <<"\n", "\n">>)
                   /\ gen.sections[i].Bullets = FirstSeen(NonEmpty(BulletsOf(src)))

\* C25 as claimed: no section returned by mergeTemplates has a bullet
\* twice, whether its heading occurs once or several times in the input.
C25_NoDuplicateBullets ==
    gen.pc = "merged" =>
        \A i \in 1..Len(gen.sections) : NoDuplicates(gen.sections[i].Bullets)

\* ------------------------------------------------------------------
\* The file-based generate command, the two validate commands and the
\* standalone generator with --validate.  A file on disk is a document, or
\* NoDoc when it does not exist, or NoAccess when it cannot be read.

NoAccess == <<"<unreadable>">>
Stale == <<"stale">>

\* the rules directory on disk that holds the files of st
DiskOf(st) ==
    [dirs  |-> {<<"rules">>} \cup
               {<<"rules", "/">> \o SubSeq(x[1], 1, x[2]) :
                  x \in {y \in st.have \X (1..5) : y[2] < Len(y[1]) /\ y[1][y[2] + 1] = "/"}},
     files |-> {<<"rules", "/">> \o SubSeq(id, 1, Len(id) - 1)
                \o <<IF id[Len(id)] = "agent" THEN "agent.md" ELSE "general.md">> :
                  id \in st.have}]

\* strings.TrimPrefix
TrimPrefix(s, prefix) ==
    IF Len(s) >= Len(prefix) /\ SubSeq(s, 1, Len(prefix)) = prefix
    THEN SubSeq(s, Len(prefix) + 1, Len(s)) ELSE s

deriveRuleNameFromPath(path) ==
    Join(Split(TrimSuffix(TrimPrefix(Canon(path), <<"rules", "/">>), <<".md">>),
               <<"/">>), <<" ">>)

RECURSIVE FilesFrom(_, _, _)
\* the loop of loadAndMergeFiles, b the text written so far
FilesFrom(b, files, st) ==
    IF files = <<>> THEN b
    ELSE LET f == Head(files)
             r == ReadFile(f, st)
             b1 == IF Len(b) > 0 THEN Append(b, Sep) ELSE b
             b2 == IF r.err
                   THEN b1 \o <<"<!-- Missing instructions for ">>
                           \o deriveRuleNameFromPath(f)
                           \o <<" (expected file: ">> \o f \o <<") -->">>
                   ELSE b1 \o r.data
         IN  FilesFrom(b2, Tail(files), st)

loadAndMergeFiles(files, st) == [text |-> FilesFrom(<<>>, files, st), err |-> Nil]

RECURSIVE GeneralFilesFrom(_, _, _, _)
GeneralFilesFrom(files, s, i, st) ==
    IF i > Len(StackNames) THEN files
    ELSE GeneralFilesFrom(addRulesForFiles(files, StackNames[i][2], s[StackNames[i][1]],
                                           DiskOf(st)),
                          s, i + 1, st)

buildGeneralFilesFromDetection(s, st) == GeneralFilesFrom(<<>>, s, 1, st)

RECURSIVE AgentFilesFromDetection(_, _, _)
AgentFilesFromDetection(files, s, i) ==
    IF i > Len(StackNames) THEN files
    ELSE AgentFilesFromDetection(addAgentForFiles(files, <<StackNames[i][3]>>,
                                                  StackNames[i][2], s[StackNames[i][1]]),
                                 s, i + 1)

buildAgentFilesFromDetection(s) == AgentFilesFromDetection(<<>>, s, 1)

RECURSIVE buildGeneralFilesFromFlags(_, _)
\* filepath.Join drops an empty element
buildGeneralFilesFromFlags(flagRules, st) ==
    IF flagRules = <<>> THEN <<>>
    ELSE LET r == Head(flagRules)
             path == IF r = <<>> THEN <<"rules">> ELSE <<"rules", "/">> \o r
             disk == DiskOf(st)
             this == IF IsDir(path, disk) THEN Glob(path \o <<"/", "general.md">>, disk)
                     ELSE IF path \in disk.files THEN <<path>>
                     ELSE <<>>
         IN  this \o buildGeneralFilesFromFlags(Tail(flagRules), st)

RECURSIVE buildAgentFilesFromFlags(_)
buildAgentFilesFromFlags(flagRules) ==
    IF flagRules = <<>> THEN <<>>
    ELSE LET r == Head(flagRules)
             path == (IF r = <<>> THEN <<"rules">> ELSE <<"rules", "/">> \o r)
                     \o <<"/", "agent.md">>
         IN  <<agentFile(deriveRuleNameFromPath(path), path)>>
             \o buildAgentFilesFromFlags(Tail(flagRules))

\* the outputs of the file-based generateCmd.RunE once the lists of files
\* are built: the copilot file for a non-empty general list, AGENTS.md for
\* a non-empty agent list, the first failing write ends the run
OutputsOfFiles(general, agents, section, st) ==
    LET merged == loadAndMergeFiles(general, st).text
        content == IF section # <<>> THEN section \o <<Sep>> \o merged ELSE merged
        agentText == buildAgentContentFiles(agents, st)
        agentContent == IF section # <<>> THEN section \o <<Sep>> \o agentText
                        ELSE agentText
        writes == IF gen.out.flagOut = "-" THEN 2 ELSE gen.out.writes
        writeGeneral == Len(general) > 0
        writeAgents == Len(agents) > 0
        generalOk == writeGeneral /\ writes >= 1
        agentsOk == writeAgents /\ writes >= (IF writeGeneral THEN 2 ELSE 1)
    IN  [gen EXCEPT
           !.pc = "done",
           !.err = IF (writeGeneral /\ ~generalOk) \/ (writeAgents /\ ~agentsOk)
                   THEN WriteError ELSE Nil,
           !.generalRuleIDs = general, !.agentRuleIDs = agents,
           !.merged = IF writeGeneral THEN merged ELSE NoDoc,
           !.copilot = IF generalOk THEN content ELSE gen.copilot,
           !.agentsMd = IF agentsOk THEN agentContent ELSE gen.agentsMd,
           !.agentContent = IF agentsOk THEN agentContent ELSE NoDoc,
           !.printed = IF ~writeGeneral /\ ~writeAgents THEN NothingSelected ELSE <<>>]

\* generateCmd.RunE of the file-based command; as in RunE, copilot and
\* agentsMd hold the documents produced, written or printed
RunEFiles ==
    /\ gen.pc = "start"
    /\ IF anyRuleFlagsSet
       THEN gen' = OutputsOfFiles(buildGeneralFilesFromFlags(gen.flagRules, gen.store),
                                  buildAgentFilesFromFlags(gen.flagRules), <<>>, gen.store)
       ELSE IF gen.detect.err # Nil
       THEN gen' = [gen EXCEPT !.pc = "done", !.err = gen.detect.err]
       ELSE gen' = OutputsOfFiles(buildGeneralFilesFromDetection(gen.detect.stack[1], gen.store),
                                  buildAgentFilesFromDetection(gen.detect.stack[1]),
                                  buildStackSection(gen.detect.stack[1]), gen.store)
    /\ UNCHANGED <<detectVars, rd, rs>>

\* the bytes of a piece: a line end is a byte of its own
Atoms(p) ==
    CASE p = Sep -> <<"\n", "\n", "---", "\n", "\n">>
      [] p = "## Stack\n\n" -> <<"## Stack", "\n", "\n">>
      [] p = "\n\n" -> <<"\n", "\n">>
      [] p = "# Agents\n\n" -> <<"# Agents", "\n", "\n">>
      [] p = "---\n\n" -> <<"---", "\n", "\n">>
      [] p = AgentsHeader[2] ->
           <<"<!-- Generated by ai-instructions. Do not edit manually. -->",
             "\n", "\n", "---", "\n", "\n">>
      [] p = AgentsHeaderFiles[2] ->
           <<"<!-- This file is generated by ai-instructions. Do not edit manually. -->",
             "\n", "\n">>
      [] OTHER -> <<p>>

RECURSIVE Bytes(_)
\* []byte(content)
Bytes(doc) == IF doc = <<>> THEN <<>> ELSE Atoms(Head(doc)) \o Bytes(Tail(doc))

RECURSIVE ReplaceAll(_, _, _)
\* strings.ReplaceAll for a non-empty old
ReplaceAll(s, old, new) ==
    IF Len(s) < Len(old) THEN s
    ELSE IF SubSeq(s, 1, Len(old)) = old
    THEN new \o ReplaceAll(SubSeq(s, Len(old) + 1, Len(s)), old, new)
    ELSE <<Head(s)>> \o ReplaceAll(Tail(s), old, new)

normalizeContent(s) == TrimSpace(ReplaceAll(s, <<"\r", "\n">>, <<"\n">>))

\* compareFileStatus(path, expected), file the state of the file at path
compareFileStatus(file, expected) ==
    IF file = NoDoc THEN "statusMissing"
    ELSE IF file = NoAccess THEN "statusOutdated"
    ELSE IF TrimSpace(Bytes(file)) = TrimSpace(Bytes(expected)) THEN "statusUpToDate"
    ELSE "statusOutdated"

\* fmt.Errorf(msg) and fmt.Errorf(msg + "%w", err)
Errorf(msg) == [type |-> "errorString", msg |-> msg]
Wrap(msg, e) == [type |-> "wrapError", msg |-> msg, err |-> e]

copilotPath == ".github/copilot-instructions.md"
agentsPath == "AGENTS.md"

\* the line printed for a file
StatusLine(status, path) ==
    CASE status = "statusMissing" -> <<"Missing: ", path>>
      [] status = "statusOutdated" -> <<"Outdated: ", path>>
      [] status = "statusUpToDate" -> <<"Up to date: ", path>>

\* what a validation run returns and prints: ids the rules resolved,
\* expected the document recomputed, both empty when the run ends earlier
Outcome(e, ids, expected, status, printed) ==
    [err |-> e, ids |-> ids, expected |-> expected, status |-> status,
     printed |-> printed]
NotRun == Outcome(Nil, <<>>, NoDoc, <<>>, <<>>)

\* faulty variant: the stack section is left out of the expected document
generalContent_NoStackSection(s, st) ==
    loadAndMergeRules(buildGeneralRulesFromDetection(s, st), st).text

\* generalContent of validateCmd.RunE, embedded rules
generalContent(s, st) ==
    LET merged == loadAndMergeRules(buildGeneralRulesFromDetection(s, st), st)
        section == buildStackSection(s)
    IN  IF section # <<>> THEN section \o <<Sep>> \o merged.text ELSE merged.text

\* faulty variant: an empty selection passes
validateEmbedded_EmptyPasses(detect, st, copilot, agents) ==
    IF detect.err # Nil
    THEN Outcome(Wrap("stack detection failed: ", detect.err), <<>>, NoDoc, <<>>, <<>>)
    ELSE Outcome(Nil, buildGeneralRulesFromDetection(detect.stack[1], st), NoDoc, <<>>,
                 <<>>)

\* step 5 of validateCmd.RunE: the status of each file printed, an error
\* when one of them is not up to date
validateReport(ids, expected, c, a) ==
    LET lines == <<StatusLine(c, copilotPath), StatusLine(a, agentsPath)>>
    IN  IF c # "statusUpToDate" \/ a # "statusUpToDate"
        THEN Outcome(Errorf("validation failed"), ids, expected, <<c, a>>, lines)
        ELSE Outcome(Nil, ids, expected, <<c, a>>,
                     Append(lines, <<"Validation passed: tech stack detected and files are up to date.">>))

\* validateCmd.RunE from the resolved identifiers on: both files are
\* compared with the one expected document
validateResolved(ids, expected, st, copilot, agents) ==
    IF Len(ids) = 0
    THEN Outcome(Errorf("no general rules resolved from detection"), ids, NoDoc,
                 <<>>, <<>>)
    ELSE IF \E i \in 1..Len(ids) : ~ruleExists(ids[i], st.have)
    THEN Outcome(Errorf("missing embedded rule"), ids, NoDoc, <<>>, <<>>)
    ELSE validateReport(ids, expected, compareFileStatus(copilot, expected),
                        compareFileStatus(agents, expected))

\* validateCmd.RunE, embedded rules
validateEmbedded(detect, st, copilot, agents) ==
    IF st.have = {}
    THEN Outcome(Errorf("embedded rules are empty"), <<>>, NoDoc, <<>>, <<>>)
    ELSE IF detect.err # Nil
    THEN Outcome(Wrap("stack detection failed: ", detect.err), <<>>, NoDoc, <<>>, <<>>)
    ELSE validateResolved(buildGeneralRulesFromDetection(detect.stack[1], st),
                          generalContent(detect.stack[1], st), st, copilot, agents)

\* the file-based validateCmd.RunE from the expected document on: the
\* file is read and compared after normalizeContent
validateAgainst(files, expected, file) ==
    IF file = NoDoc
    THEN Outcome(Errorf("instructions file is missing; run 'ai-instructions generate' first"),
                 files, expected, <<>>, <<>>)
    ELSE IF file = NoAccess
    THEN Outcome(Wrap("failed to read: ", PathError(<<copilotPath>>)), files, expected,
                 <<>>, <<>>)
    ELSE IF normalizeContent(Bytes(expected)) # normalizeContent(Bytes(file))
    THEN Outcome(Errorf("instructions file is outdated; run 'ai-instructions generate' and commit the changes"),
                 files, expected, <<>>, <<>>)
    ELSE Outcome(Nil, files, expected, <<>>,
                 << <<"Instructions file is up to date.">> >>)

\* the file-based validateCmd.RunE from the selected files on
validateSelected(files, section, st, file) ==
    IF Len(files) = 0
    THEN Outcome(Errorf("no rule files selected from detection - nothing to validate"),
                 files, NoDoc, <<>>, <<>>)
    ELSE validateAgainst(files,
                         IF section # <<>>
                         THEN section \o <<Sep>> \o loadAndMergeFiles(files, st).text
                         ELSE loadAndMergeFiles(files, st).text,
                         file)

\* validateCmd.RunE of the file-based command, --file left at its default
validateFiles(detect, st, file) ==
    IF detect.err # Nil
    THEN Outcome(Wrap("failed to detect stack: ", detect.err), <<>>, NoDoc, <<>>, <<>>)
    ELSE validateSelected(buildGeneralFilesFromDetection(detect.stack[1], st),
                          buildStackSection(detect.stack[1]), st, file)

\* the flags of the standalone generator that name a template file
flagToFile == {"php", "laravel", "react", "go"}

\* a template file on disk: absent, empty, unreadable, malformed, or JSON
EmptyFile == [kind |-> "empty"]
TemplateJson(t) == [kind |-> "json", tpl |-> t]

RECURSIVE SectionsText(_)
\* the loop of renderMarkdown
SectionsText(sections) ==
    IF sections = <<>> THEN <<>>
    ELSE LET sec == Head(sections)
             bullets == [i \in 1..Len(sec.Bullets) |-> <<"- ">> \o sec.Bullets[i] \o <<"\n">>]
         IN  <<"## ">> \o sec.Heading \o <<"\n", "\n">>
             \o (IF TrimSpace(sec.Text) # <<>>
                 THEN TrimSpace(sec.Text) \o <<"\n", "\n">> ELSE <<>>)
             \o Join(bullets, <<>>)
             \o (IF Len(sec.Bullets) > 0 THEN <<"\n">> ELSE <<>>)
             \o SectionsText(Tail(sections))

renderMarkdown(title, sections, sets) ==
    <<"# ">> \o TrimSpace(title) \o <<"\n", "\n">>
    \o <<"<!-- generated by ai-instructions-pilot: sets: ">>
    \o Join([i \in 1..Len(sets) |-> <<sets[i]>>], <<", ">>) \o <<" -->", "\n", "\n">>
    \o SectionsText(sections)

\* what the loop over the arguments has found so far
NoArgs ==
    [exit |-> 0, stderr |-> <<>>, checkMode |-> FALSE, templates |-> <<>>,
     sets |-> <<>>]

RECURSIVE LoadArgs(_, _, _)
\* the loop over the arguments of main, dir the template files on disk
LoadArgs(acc, args, dir) ==
    IF args = <<>> THEN acc
    ELSE LET a == Head(args)
         IN  IF a = "--validate"
             THEN LoadArgs([acc EXCEPT !.checkMode = TRUE], Tail(args), dir)
             ELSE IF a \notin flagToFile
             THEN [acc EXCEPT !.exit = 2, !.stderr = <<"Unknown flag: ", a>>]
             ELSE IF dir[a].kind = "absent"
             THEN [acc EXCEPT !.exit = 2, !.stderr = <<"Missing file for ", a>>]
             ELSE IF dir[a].kind = "empty"
             THEN [acc EXCEPT !.exit = 2, !.stderr = <<"Template file is empty: ", a>>]
             ELSE IF dir[a].kind = "unreadable"
             THEN [acc EXCEPT !.exit = 1, !.stderr = <<"Cannot read ", a>>]
             ELSE IF dir[a].kind = "malformed"
             THEN [acc EXCEPT !.exit = 1, !.stderr = <<"Invalid JSON in ", a>>]
             ELSE LoadArgs([acc EXCEPT !.templates = Append(@, dir[a].tpl),
                                       !.sets = Append(@, a)],
                           Tail(args), dir)

\* the places of sets that hold a name for the first time
Dedup(sets) ==
    SelectSeq([i \in 1..Len(sets) |-> i],
              LAMBDA i : \A j \in 1..(i - 1) : sets[j] # sets[i])

\* how a run of main ends: exit code, what it wrote to stderr and stdout,
\* the output file afterwards, and the document it rendered
Exit(code, stderr, stdout, file, md) ==
    [exit |-> code, stderr |-> stderr, stdout |-> stdout, file |-> file, md |-> md]

\* main: existing the output file before the run, writable whether
\* MkdirAll and WriteFile succeed
main(args, dir, existing, writable) ==
    LET l == LoadArgs(NoArgs, args, dir)
        keep == Dedup(l.sets)
        sets == [i \in 1..Len(keep) |-> l.sets[keep[i]]]
        templates == [i \in 1..Len(keep) |-> l.templates[keep[i]]]
        r == mergeTemplates(templates, sets)
        md == renderMarkdown(r.title, r.sections, sets)
        data == IF existing = NoDoc THEN <<>> ELSE Bytes(existing)
    IN  IF args = <<>> THEN Exit(2, <<>>, <<"Usage:">>, existing, NoDoc)
        ELSE IF l.exit # 0 THEN Exit(l.exit, l.stderr, <<>>, existing, NoDoc)
        ELSE IF Len(sets) = 0 THEN Exit(2, <<>>, <<"Usage:">>, existing, NoDoc)
        ELSE IF l.checkMode
        THEN IF existing = NoAccess
             THEN Exit(1, <<"read error: ">>, <<>>, existing, md)
             ELSE IF data # Bytes(md)
             THEN Exit(1, <<copilotPath,
                            " is out of date. Re-run without --validate to regenerate.">>,
                       <<>>, existing, md)
             ELSE Exit(0, <<>>, <<"OK: file is up to date.">>, existing, md)
        ELSE IF ~writable THEN Exit(1, <<"write error: ">>, <<>>, existing, md)
        ELSE Exit(0, <<>>, <<"Wrote ", copilotPath>>, md, md)

\* the error of a process that exits with a code other than 0
ExitError(r) ==
    IF r.exit = 0 THEN Nil ELSE [type |-> "exit", code |-> r.exit, msg |-> r.stderr]

\* what a run of generate and validate finds
ValidateRuleIds ==
    { <<"php", "/", "general">>, <<"php", "/", "2", "/", "general">>,
      <<"php", "/", "agent">> }
ValidateStores ==
    UNION {{[have |-> h, blank |-> b] : b \in SUBSET (h \cap BlankIds)} :
             h \in SUBSET ValidateRuleIds}
ValidateFlagLists == {<<>>, << <<"php">> >>, << <<"nosuch">> >>}
ValidateDetectResults ==
    {Returned(<<[t \in Techs |-> IF t = "PHP" THEN x[1]
                                 ELSE IF t = "Laravel" THEN x[2] ELSE <<>>]>>, Nil) :
       x \in GenVersions \X GenVersions}
    \cup {Returned(<<>>, PathError(<<"composer.json">>))}
SampleTemplates ==
    { Template(<<"T">>, << TemplateSection(<<"H">>, <<"a">>, << <<"x">> >>) >>),
      Template(<<>>, << TemplateSection(<<"H">>, <<"b">>, << <<"x">>, <<"y">> >>),
                        TemplateSection(<<"K">>, <<>>, <<>>) >>) }
TemplateFiles ==
    {Absent, EmptyFile, Unreadable, Malformed} \cup {TemplateJson(t) : t \in SampleTemplates}
TemplateDirs ==
    {[f \in flagToFile |-> IF f = "php" THEN x[1] ELSE IF f = "laravel" THEN x[2]
                           ELSE Absent] : x \in TemplateFiles \X TemplateFiles}
NoTemplates == [f \in flagToFile |-> Absent]
StandaloneArgs ==
    {<<>>, <<"php">>, <<"laravel">>, <<"php", "laravel">>, <<"php", "php">>, <<"bogus">>}
Entries == {"embedded", "files", "standalone"}
NoStore == [have |-> {}, blank |-> {}]

InitValidate ==
    /\ DetectIdle
    /\ rd = <<>>
    /\ rs = <<>>
    /\ \E entry \in Entries : \E w \in {0, 1, 2} :
       \E copilot \in {NoDoc, NoAccess, Stale} :
       \E agentsMd \in (IF entry = "embedded" THEN {NoDoc, NoAccess, Stale} ELSE {NoDoc}) :
       \E flagRules \in (IF entry = "standalone" THEN {<<>>} ELSE ValidateFlagLists) :
       \E st \in (IF entry = "standalone" THEN {NoStore} ELSE ValidateStores) :
       \E detect \in (IF entry = "standalone" THEN {NotCalled} ELSE ValidateDetectResults) :
       \E args \in (IF entry = "standalone" THEN StandaloneArgs ELSE {<<>>}) :
       \E dir \in (IF entry = "standalone" THEN TemplateDirs ELSE {NoTemplates}) :
           gen = [entry |-> entry, flagRules |-> flagRules, store |-> st,
                  out |-> [flagOut |-> "", writes |-> w], detect |-> detect,
                  args |-> args, dir |-> dir, pc |-> "start",
                  generalRuleIDs |-> <<>>, agentRuleIDs |-> <<>>,
                  merged |-> NoDoc, copilot |-> copilot, agentsMd |-> agentsMd,
                  agentContent |-> NoDoc, printed |-> <<>>, err |-> Nil,
                  edited |-> {}, from |-> "", v |-> NotRun]

\* ai-instructions generate, embedded rules
GenerateEmbedded == gen.entry = "embedded" /\ RunE

\* ai-instructions generate, rules read from disk
GenerateFiles == gen.entry = "files" /\ RunEFiles

\* the standalone generator without --validate
MainGenerate ==
    /\ gen.entry = "standalone"
    /\ gen.pc = "start"
    /\ LET r == main(gen.args, gen.dir, gen.copilot, gen.out.writes >= 1)
       IN  gen' = [gen EXCEPT !.pc = "done", !.err = ExitError(r), !.copilot = r.file,
                              !.merged = r.md, !.printed = r.stdout]
    /\ UNCHANGED <<detectVars, rd, rs>>

\* what may happen to a generated file before it is validated
EditKinds == {"crlf", "pad", "crlfpad", "space", "change"}
Edited(kind, doc) ==
    LET b == Bytes(doc)
        crlf == ReplaceAll(b, <<"\n">>, <<"\r", "\n">>)
    IN  CASE kind = "crlf" -> crlf
          [] kind = "pad" -> <<"\n", " ">> \o b \o <<"\t", "\n">>
          [] kind = "crlfpad" -> crlf \o <<"\r", "\n">>
          [] kind = "space" ->
               IF b = <<>> THEN <<" ">> ELSE <<Head(b), " ">> \o Tail(b)
          [] kind = "change" ->
               IF b = <<>> THEN <<"edited">> ELSE <<Head(b), "edited">> \o Tail(b)

\* a file that exists is edited, each file once
EditFile ==
    /\ gen.pc = "done"
    /\ \E name \in {"copilot", "agentsMd"} : \E kind \in EditKinds :
         /\ name \notin gen.edited
         /\ gen[name] \notin {NoDoc, NoAccess, Stale}
         /\ gen' = [gen EXCEPT ![name] = Edited(kind, gen[name]),
                               !.edited = @ \cup {name}]
    /\ UNCHANGED <<detectVars, rd, rs>>

\* ai-instructions validate, embedded rules
ValidateEmbedded ==
    /\ gen.entry = "embedded"
    /\ gen.pc \in {"start", "done"}
    /\ gen' = [gen EXCEPT !.pc = "validated", !.from = gen.pc,
                          !.v = validateEmbedded(gen.detect, gen.store, gen.copilot,
                                                 gen.agentsMd)]
    /\ UNCHANGED <<detectVars, rd, rs>>

\* ai-instructions validate, rules read from disk
ValidateFiles ==
    /\ gen.entry = "files"
    /\ gen.pc \in {"start", "done"}
    /\ gen' = [gen EXCEPT !.pc = "validated", !.from = gen.pc,
                          !.v = validateFiles(gen.detect, gen.store, gen.copilot)]
    /\ UNCHANGED <<detectVars, rd, rs>>

\* the standalone generator with --validate after the template flags
MainValidate ==
    /\ gen.entry = "standalone"
    /\ gen.pc \in {"start", "done"}
    /\ LET r == main(gen.args \o <<"--validate">>, gen.dir, gen.copilot, TRUE)
       IN  gen' = [gen EXCEPT !.pc = "validated", !.from = gen.pc,
                              !.v = Outcome(ExitError(r), <<>>, r.md, <<>>, r.stdout)]
    /\ UNCHANGED <<detectVars, rd, rs>>

NextValidate ==
    \/ GenerateEmbedded \/ GenerateFiles \/ MainGenerate
    \/ EditFile
    \/ ValidateEmbedded \/ ValidateFiles \/ MainValidate

SpecValidate == InitValidate /\ [][NextValidate]_vars

(***************************************************************************)
(* Properties of validation (SpecValidate)                                 *)
(***************************************************************************)
\* a document with its line endings made "\n" and the white space around
\* it removed
Normalized(doc) == TrimSpace(ReplaceAll(Bytes(doc), <<"\r", "\n">>, <<"\n">>))

\* the files a validation entry point checks
Checked ==
    IF gen.entry = "embedded" THEN {"copilot", "agentsMd"} ELSE {"copilot"}

\* a cobra validate command has run as far as the comparison
Compared ==
    /\ gen.pc = "validated"
    /\ gen.entry \in {"embedded", "files"}
    /\ gen.v.expected # NoDoc

\* what the run reported for a file that exists and can be read
Reported(name) ==
    IF gen.entry = "embedded"
    THEN (IF gen.v.status[IF name = "copilot" THEN 1 ELSE 2] = "statusUpToDate"
          THEN "up to date" ELSE "outdated")
    ELSE (IF gen.v.err = Nil THEN "up to date" ELSE "outdated")

\* C21 as claimed: in both validate commands a file that equals the
\* recomputed document after normalization of line endings and of the white
\* space around it is reported as up to date, and any other file as
\* outdated.
C21_NormalizedEquality ==
    Compared =>
        \A name \in Checked :
            gen[name] \notin {NoDoc, NoAccess} =>
                Reported(name) = (IF Normalized(gen[name]) = Normalized(gen.v.expected)
                                  THEN "up to date" ELSE "outdated")

\* the outcome of the validation run of this state, had the two files
\* been copilot and agentsMd
OutcomeWith(copilot, agentsMd) ==
    CASE gen.entry = "embedded" ->
           validateEmbedded(gen.detect, gen.store, copilot, agentsMd)
      [] gen.entry = "files" -> validateFiles(gen.detect, gen.store, copilot)
      [] gen.entry = "standalone" ->
           LET r == main(gen.args \o <<"--validate">>, gen.dir, copilot, TRUE)
           IN  Outcome(ExitError(r), <<>>, r.md, <<>>, r.stdout)

\* the outcome had file name existed with outdated content
OutdatedOutcome(name) ==
    IF name = "copilot" THEN OutcomeWith(Stale, gen.agentsMd)
    ELSE OutcomeWith(gen.copilot, Stale)

\* C22 as claimed: in each of the three validation entry points a run that
\* finds a checked file missing fails, a run that finds it outdated fails,
\* and the two outcomes (error, statuses, lines printed) differ.
C22_MissingDistinctFromOutdated ==
    (gen.pc = "validated" /\ gen.v.expected # NoDoc) =>
        \A name \in Checked :
            gen[name] = NoDoc =>
                /\ gen.v.err # Nil
                /\ OutdatedOutcome(name).err # Nil
                /\ gen.v # OutdatedOutcome(name)

\* a step of a generate command that selects no rule at all, in manual mode
\* or after a detection that succeeded
GenerateNothing ==
    /\ gen.entry \in {"embedded", "files"}
    /\ gen.pc = "start" /\ gen'.pc = "done"
    /\ anyRuleFlagsSet \/ gen.detect.err = Nil
    /\ gen'.generalRuleIDs = <<>> /\ gen'.agentRuleIDs = <<>>

\* a step of a validate command whose detection succeeds and selects no rule
ValidateNothing ==
    /\ gen.entry \in {"embedded", "files"}
    /\ gen'.pc = "validated"
    /\ gen.detect.err = Nil
    /\ gen'.v.ids = <<>>

\* C23: a generate run that selects no rule prints the message, leaves both
\* files as they were and returns no error; a validate run that selects no
\* rule returns an error.
C23_NoSelection ==
    [][ /\ GenerateNothing =>
            /\ gen'.err = Nil
            /\ gen'.printed = NothingSelected
            /\ gen'.copilot = gen.copilot /\ gen'.agentsMd = gen.agentsMd
        /\ ValidateNothing => gen'.v.err # Nil ]_vars

\* nothing detected: generate left the old file alone and said so, and the
\* validate run after it failed for want of rules
C23_Witness ==
    /\ gen.entry = "embedded" /\ ~anyRuleFlagsSet
    /\ gen.pc = "validated" /\ gen.from = "done"
    /\ gen.err = Nil /\ gen.printed = NothingSelected
    /\ gen.copilot = Stale
    /\ gen.store.have # {}
    /\ gen.v.err = Errorf("no general rules resolved from detection")

\* validate has run right after a successful generate in automatic mode,
\* on the same tree and rules, the files as generate left them
RoundTrip ==
    /\ gen.entry \in {"embedded", "files"}
    /\ gen.pc = "validated" /\ gen.from = "done"
    /\ ~anyRuleFlagsSet
    /\ gen.err = Nil
    /\ gen.edited = {}

\* the validate run succeeded and found every file it checks up to date
AllUpToDate ==
    /\ gen.v.err = Nil
    /\ gen.entry = "embedded" => gen.v.status = <<"statusUpToDate", "statusUpToDate">>
    /\ gen.entry = "files" => gen.v.printed = << <<"Instructions file is up to date.">> >>

\* C28 as claimed: validate after a successful automatic generate succeeds
\* and reports every checked file up to date, for both pairs of commands.
C28_RoundTrip == RoundTrip => AllUpToDate

\* C28 amended: validate after a successful automatic generate that resolved
\* at least one general rule succeeds and reports every checked file up to
\* date, for both pairs of commands.
C28_RoundTripOfWrittenFiles ==
    (RoundTrip /\ Len(gen.generalRuleIDs) > 0) => AllUpToDate

\* the file-based pair, PHP and Laravel detected, rules for PHP only: the
\* file written over a stale one holds a placeholder and validates
C28_Witness ==
    /\ RoundTrip /\ gen.entry = "files"
    /\ Len(gen.generalRuleIDs) > 1
    /\ gen.detect.stack[1]["Laravel"] # <<>>
    /\ Contains(gen.copilot, <<"<!-- Missing instructions for ", "laravel", " ", "general">>)
    /\ gen.v.expected = gen.copilot
    /\ AllUpToDate

====
